---- MODULE Spec2Model ----
(***************************************************************************)
(* Drone-weather agent of agent-stack: the restriction (TFR) proximity     *)
(* filter, the weather evaluator and DroneWeatherAgent.RunOnce, which      *)
(* composes them into a go/no-go decision and an e-mail notification.      *)
(*                                                                         *)
(* Units.  Go's float64 values are kept in fixed point:                    *)
(*   - distances in hundredths of a statute mile, TFR radii in hundredths  *)
(*     of a nautical mile;                                                 *)
(*   - coordinates in millionths of a degree;                              *)
(*   - weather magnitudes in tenths (km/h, km, mm, degrees Celsius);       *)
(*   - time.Time as a natural number, the zero time.Time being 0.          *)
(*                                                                         *)
(* The repository holds two revisions of TFRClient: the GeoJSON client     *)
(* (src/unnamed/part_011) and the HTML client                              *)
(* (src/agents/drone-weather/tfr.go).  They differ in the activity test of *)
(* CheckTFRs; the variable client says which one the agent was built with. *)
(***************************************************************************)
EXTENDS Integers, Sequences, FiniteSets, TLC

\* ------------------------------------------------------------------------
\* Bounds of the model
\* ------------------------------------------------------------------------
MaxTime == 2
MaxTFRs == 3
MaxRuns == 2
MaxSamples == 2
MaxFeatures == 2
MaxTicks == 3
MaxClock == 8
MaxVideos == 2
MaxCalls == 4
MaxStarters == 2

\* ------------------------------------------------------------------------
\* Configuration (config.Load defaults, DroneWeatherConfig)
\* ------------------------------------------------------------------------
SearchRadiusMiles == 25
MaxWindSpeedKmh == 25
MinVisibilityKm == 5
MaxPrecipitationMm == 0
MinTempC == 44
MaxTempC == 350

\* The thresholds of a config.DroneWeatherConfig: wind speed and visibility
\* in whole km/h and km, precipitation and temperatures in tenths.
DroneWeatherConfig(maxWind, minVis, maxPrecip, minTemp, maxTemp) ==
  [MaxWindSpeedKmh |-> maxWind, MinVisibilityKm |-> minVis,
   MaxPrecipitationMm |-> maxPrecip, MinTempC |-> minTemp, MaxTempC |-> maxTemp]

\* The thresholds config.Load yields when the file sets none.
DefaultThresholds ==
  DroneWeatherConfig(MaxWindSpeedKmh, MinVisibilityKm, MaxPrecipitationMm,
                     MinTempC, MaxTempC)

\* Thresholds a WeatherClient may be built with: the defaults, the empty
\* DroneWeatherConfig{} and a file whose temperature range is inverted
\* (thresholds are not validated).
ThresholdConfigs ==
  {DefaultThresholds,
   DroneWeatherConfig(0, 0, 0, 0, 0),
   DroneWeatherConfig(10, 10, 5, 300, 100)}

\* ------------------------------------------------------------------------
\* Geometry
\* ------------------------------------------------------------------------
Point(lat, lon) == [Latitude |-> lat, Longitude |-> lon]

Origin == Point(0, 0)
Equator == Point(0, 100000)
Near == Point(40100000, -74100000)
Edge == Point(40528238, -74000000)
Beyond == Point(40528383, -74000000)
Home1 == Point(40000000, -74000000)
Home2 == Point(100000, 100000)

\* Vertices 10 miles north and south of Edge, and the means of the vertices
\* of the rings of the feed: of Near and Home1, and of Near three times and
\* Home1.
North == Point(40672932, -74000000)
South == Point(40383544, -74000000)
Mid == Point(40050000, -74050000)
Quarter == Point(40075000, -74075000)

\* Home coordinates accepted by Initialize: neither coordinate is zero.
Homes == {Home1, Home2}

\* Centers a restriction may carry.
Centers == {Origin, Equator, Near, Edge, Beyond}

\* The haversine distance of calculateDistance (earth radius 3959 miles),
\* evaluated at the points of the model and rounded to 0.01 mile.  Each
\* ordered pair is evaluated on its own.
HaversineTable ==
  <<
    <<Origin, Origin, 0>>, <<Origin, Equator, 691>>, <<Origin, Near, 538295>>,
    <<Origin, Edge, 538315>>, <<Origin, Beyond, 538315>>, <<Origin, Home1, 537650>>,
    <<Origin, Home2, 977>>, <<Origin, Mid, 537973>>, <<Origin, Quarter, 538134>>,
    <<Origin, North, 538498>>, <<Origin, South, 538132>>, <<Equator, Origin, 691>>,
    <<Equator, Equator, 0>>, <<Equator, Near, 538815>>, <<Equator, Edge, 538831>>,
    <<Equator, Beyond, 538831>>, <<Equator, Home1, 538170>>, <<Equator, Home2, 691>>,
    <<Equator, Mid, 538493>>, <<Equator, Quarter, 538654>>, <<Equator, North, 539014>>,
    <<Equator, South, 538650>>, <<Near, Origin, 538295>>, <<Near, Equator, 538815>>,
    <<Near, Near, 0>>, <<Near, Edge, 3006>>, <<Near, Beyond, 3007>>,
    <<Near, Home1, 870>>, <<Near, Home2, 538360>>, <<Near, Mid, 435>>,
    <<Near, Quarter, 218>>, <<Near, North, 3994>>, <<Near, South, 2029>>,
    <<Edge, Origin, 538315>>, <<Edge, Equator, 538831>>, <<Edge, Near, 3006>>,
    <<Edge, Edge, 0>>, <<Edge, Beyond, 1>>, <<Edge, Home1, 3650>>,
    <<Edge, Home2, 538372>>, <<Edge, Mid, 3315>>, <<Edge, Quarter, 3157>>,
    <<Edge, North, 1000>>, <<Edge, South, 1000>>, <<Beyond, Origin, 538315>>,
    <<Beyond, Equator, 538831>>, <<Beyond, Near, 3007>>, <<Beyond, Edge, 1>>,
    <<Beyond, Beyond, 0>>, <<Beyond, Home1, 3651>>, <<Beyond, Home2, 538372>>,
    <<Beyond, Mid, 3316>>, <<Beyond, Quarter, 3158>>, <<Beyond, North, 999>>,
    <<Beyond, South, 1001>>, <<Home1, Origin, 537650>>, <<Home1, Equator, 538170>>,
    <<Home1, Near, 870>>, <<Home1, Edge, 3650>>, <<Home1, Beyond, 3651>>,
    <<Home1, Home1, 0>>, <<Home1, Home2, 537716>>, <<Home1, Mid, 435>>,
    <<Home1, Quarter, 653>>, <<Home1, North, 4650>>, <<Home1, South, 2650>>,
    <<Home2, Origin, 977>>, <<Home2, Equator, 691>>, <<Home2, Near, 538360>>,
    <<Home2, Edge, 538372>>, <<Home2, Beyond, 538372>>, <<Home2, Home1, 537716>>,
    <<Home2, Home2, 0>>, <<Home2, Mid, 538038>>, <<Home2, Quarter, 538199>>,
    <<Home2, North, 538553>>, <<Home2, South, 538192>>, <<Mid, Origin, 537973>>,
    <<Mid, Equator, 538493>>, <<Mid, Near, 435>>, <<Mid, Edge, 3315>>,
    <<Mid, Beyond, 3316>>, <<Mid, Home1, 435>>, <<Mid, Home2, 538038>>,
    <<Mid, Mid, 0>>, <<Mid, Quarter, 218>>, <<Mid, North, 4312>>,
    <<Mid, South, 2320>>, <<Quarter, Origin, 538134>>, <<Quarter, Equator, 538654>>,
    <<Quarter, Near, 218>>, <<Quarter, Edge, 3157>>, <<Quarter, Beyond, 3158>>,
    <<Quarter, Home1, 653>>, <<Quarter, Home2, 538199>>, <<Quarter, Mid, 218>>,
    <<Quarter, Quarter, 0>>, <<Quarter, North, 4150>>, <<Quarter, South, 2168>>,
    <<North, Origin, 538498>>, <<North, Equator, 539014>>, <<North, Near, 3994>>,
    <<North, Edge, 1000>>, <<North, Beyond, 999>>, <<North, Home1, 4650>>,
    <<North, Home2, 538553>>, <<North, Mid, 4312>>, <<North, Quarter, 4150>>,
    <<North, North, 0>>, <<North, South, 2000>>, <<South, Origin, 538132>>,
    <<South, Equator, 538650>>, <<South, Near, 2029>>, <<South, Edge, 1000>>,
    <<South, Beyond, 1001>>, <<South, Home1, 2650>>, <<South, Home2, 538192>>,
    <<South, Mid, 2320>>, <<South, Quarter, 2168>>, <<South, North, 2000>>,
    <<South, South, 0>>
  >>

\* A signed calculateDistance: negative towards the south.
calculateDistanceSigned(lat1, lon1, lat2, lon2) ==
  LET i == CHOOSE k \in 1..Len(HaversineTable) :
             /\ HaversineTable[k][1] = Point(lat1, lon1)
             /\ HaversineTable[k][2] = Point(lat2, lon2)
  IN  IF lat2 < lat1 THEN 0 - HaversineTable[i][3] ELSE HaversineTable[i][3]

\* calculateDistance: distance in miles between two coordinates.
calculateDistance(lat1, lon1, lat2, lon2) ==
  LET i == CHOOSE k \in 1..Len(HaversineTable) :
             /\ HaversineTable[k][1] = Point(lat1, lon1)
             /\ HaversineTable[k][2] = Point(lat2, lon2)
  IN  HaversineTable[i][3]

\* ------------------------------------------------------------------------
\* time.Time
\* ------------------------------------------------------------------------
IsZero(t) == t = 0
After(t, u) == t > u
Before(t, u) == t < u

\* ------------------------------------------------------------------------
\* models.TFR and the restriction feed
\* ------------------------------------------------------------------------
TFR(start, end, center, radius) ==
  [StartTime |-> start, EndTime |-> end,
   Latitude |-> center.Latitude, Longitude |-> center.Longitude,
   Radius |-> radius]

\* Radii in hundredths of a nautical mile: none, and the 10 nm of the tests.
Radii == {0, 1000}

Times == 0..MaxTime

\* Every combination of validity window and geometry.
TFRRecords ==
  {TFR(s, e, c, r) : s \in Times, e \in Times, c \in Centers, r \in Radii}

\* The records feeds of several restrictions are made of.
ListRecords ==
  {TFR(s, MaxTime, c, 1000) : s \in {1, MaxTime},
                              c \in {Origin, Equator, Near, Edge}}

\* The records of the feeds the agent runs are checked with.
AgentRecords ==
  {TFR(1, MaxTime, Near, 1000), TFR(1, MaxTime, Equator, 1000),
   TFR(MaxTime, 0, Origin, 1000)}

RECURSIVE SeqsUpTo(_, _)
SeqsUpTo(S, n) ==
  IF n = 0 THEN {<<>>}
  ELSE LET shorter == SeqsUpTo(S, n - 1)
       IN  shorter \cup {Append(q, x) : q \in shorter, x \in S}

RECURSIVE Sum(_)
Sum(s) == IF s = <<>> THEN 0 ELSE Head(s) + Sum(Tail(s))

\* Feeds of the proximity-filter specification: every single record, and
\* every list of up to MaxTFRs of the list records.
FilterFeeds == {<<r>> : r \in TFRRecords} \cup SeqsUpTo(ListRecords, MaxTFRs)

\* Feeds of the agent specification.
AgentFeeds == SeqsUpTo(AgentRecords, MaxTFRs)

\* ------------------------------------------------------------------------
\* TFRClient
\* ------------------------------------------------------------------------

\* The summary line of a check, as its fragments of text.
ContainsText(summary, text) == \E i \in 1..Len(summary) : summary[i] = text

\* buildTFRCheck whose summary always counts one restriction.
buildTFRCheckCountingOne(activeTFRs) ==
  [HasActiveTFRs |-> Len(activeTFRs) > 0,
   ActiveTFRs    |-> activeTFRs,
   CheckRadius   |-> SearchRadiusMiles,
   Summary       |->
     IF Len(activeTFRs) = 0
     THEN <<"No restrictions found within", ToString(SearchRadiusMiles),
            "miles - clear to fly">>
     ELSE <<"1", "restriction(s) found within", ToString(SearchRadiusMiles),
            "miles - check locations before flying">>]

\* buildTFRCheck creates a TFRCheck result from a list of active TFRs.
buildTFRCheck(activeTFRs) ==
  [HasActiveTFRs |-> Len(activeTFRs) > 0,
   ActiveTFRs    |-> activeTFRs,
   CheckRadius   |-> SearchRadiusMiles,
   Summary       |->
     IF Len(activeTFRs) = 0
     THEN <<"No restrictions found within", ToString(SearchRadiusMiles),
            "miles - clear to fly">>
     ELSE <<ToString(Len(activeTFRs)), "restriction(s) found within",
            ToString(SearchRadiusMiles),
            "miles - check locations before flying">>]

\* tfr.Radius * 1.15078: nautical miles to statute miles.
tfrRadiusMiles(tfr) == (tfr.Radius * 115078) \div 100000

\* Mutant of isWithinSearchArea: no test for missing coordinate data.
isWithinSearchAreaNoZeroCheck(homeLat, homeLon, tfr) ==
  calculateDistance(homeLat, homeLon, tfr.Latitude, tfr.Longitude)
    <= SearchRadiusMiles * 100 + tfrRadiusMiles(tfr)

\* Mutant of isWithinSearchArea: circles that only touch do not intersect.
isWithinSearchAreaStrict(homeLat, homeLon, tfr) ==
  IF tfr.Latitude = 0 /\ tfr.Longitude = 0
  THEN FALSE
  ELSE calculateDistance(homeLat, homeLon, tfr.Latitude, tfr.Longitude)
         < SearchRadiusMiles * 100 + tfrRadiusMiles(tfr)

\* isWithinSearchArea checks if a TFR intersects with the search area around
\* the given coordinates.
isWithinSearchArea(homeLat, homeLon, tfr) ==
  LET searchRadiusMiles == SearchRadiusMiles * 100
  IN  IF tfr.Latitude = 0 /\ tfr.Longitude = 0
      THEN FALSE
      ELSE calculateDistance(homeLat, homeLon, tfr.Latitude, tfr.Longitude)
             <= searchRadiusMiles + tfrRadiusMiles(tfr)

\* Mutant of IsCurrentlyActive: the start time is not looked at.
IsCurrentlyActiveIgnoringStart(tfr, n) ==
  ~(~IsZero(tfr.EndTime) /\ Before(tfr.EndTime, n))

\* The activity test of CheckTFRs in the GeoJSON client: a TFR is skipped if
\* it has not started yet or if it has an end time and has already ended.
IsCurrentlyActive(tfr, n) ==
  ~(After(tfr.StartTime, n) \/ (~IsZero(tfr.EndTime) /\ Before(tfr.EndTime, n)))

\* The activity test of CheckTFRs in the HTML client.
IsCurrentlyActiveHTML(tfr, n) ==
  ~(After(tfr.StartTime, n) \/ Before(tfr.EndTime, n))

isActive(c, tfr, n) ==
  IF c = "geojson" THEN IsCurrentlyActive(tfr, n) ELSE IsCurrentlyActiveHTML(tfr, n)

\* Mutant of filterTFRs: a TFR that passes is put in front of the list.
RECURSIVE filterTFRsPrepending(_, _, _, _, _, _)
filterTFRsPrepending(c, rest, lat, lon, n, activeTFRs) ==
  IF rest = <<>> THEN activeTFRs
  ELSE LET tfr == Head(rest)
       IN  IF isActive(c, tfr, n) /\ isWithinSearchArea(lat, lon, tfr)
           THEN filterTFRsPrepending(c, Tail(rest), lat, lon, n, <<tfr>> \o activeTFRs)
           ELSE filterTFRsPrepending(c, Tail(rest), lat, lon, n, activeTFRs)

\* The filter loop of CheckTFRs over the TFRs still to visit.
RECURSIVE filterTFRs(_, _, _, _, _, _)
filterTFRs(c, rest, lat, lon, n, activeTFRs) ==
  IF rest = <<>> THEN activeTFRs
  ELSE LET tfr == Head(rest)
       IN  IF ~isActive(c, tfr, n)
           THEN filterTFRs(c, Tail(rest), lat, lon, n, activeTFRs)
           ELSE IF isWithinSearchArea(lat, lon, tfr)
                THEN filterTFRs(c, Tail(rest), lat, lon, n, Append(activeTFRs, tfr))
                ELSE filterTFRs(c, Tail(rest), lat, lon, n, activeTFRs)

\* CheckTFRs: the check and the error it returns.  fetched is FALSE when
\* fetchActiveTFRs failed.
CheckTFRsResult(c, fetched, allTFRs, lat, lon, n) ==
  IF ~fetched
  THEN [check |-> buildTFRCheck(<<>>), err |-> TRUE]
  ELSE [check |-> buildTFRCheck(filterTFRs(c, allTFRs, lat, lon, n, <<>>)),
        err   |-> FALSE]

\* ------------------------------------------------------------------------
\* The GeoJSON feed (GeoJSON client).  Times are days, day 1 being
\* 2025-01-01; the zero time.Time is 0.  A title is the sequence of its
\* pieces of text: words, the connector "through", and date texts of the
\* form "weekday, month day, year".
\* ------------------------------------------------------------------------
Word(text) == [kind |-> "word", text |-> text]

Through == [kind |-> "through"]

DateText(weekday, month, day, year) ==
  [kind |-> "date", weekday |-> weekday, month |-> month, day |-> day,
   year |-> year]

Weekdays ==
  {"Sunday", "Monday", "Tuesday", "Wednesday", "Thursday", "Friday", "Saturday"}

Months ==
  <<"January", "February", "March", "April", "May", "June", "July", "August",
    "September", "October", "November", "December">>

\* Words that match [A-Z][a-z]+day and [A-Z][a-z]+ among those of the model:
\* "monday" and "JAN" do not, "Someday" and "Smarch" do.
WeekdayPattern == Weekdays \cup {"Someday"}

MonthPattern == {Months[m] : m \in 1..Len(Months)} \cup {"Smarch"}

\* datePartRegex on one piece of text: weekday, month, one or two digits of
\* day and four digits of year.
MatchesDatePattern(piece) ==
  /\ piece.kind = "date"
  /\ piece.weekday \in WeekdayPattern
  /\ piece.month \in MonthPattern
  /\ piece.day \in 0..99
  /\ piece.year \in 1000..9999

IsLeap(year) == (year % 4 = 0 /\ year % 100 # 0) \/ year % 400 = 0

DaysIn(m, year) ==
  IF m = 2 THEN (IF IsLeap(year) THEN 29 ELSE 28)
  ELSE IF m \in {4, 6, 9, 11} THEN 30 ELSE 31

MonthNumber(month) == CHOOSE m \in 1..Len(Months) : Months[m] = month

\* The day of a calendar date, counted from 2025-01-01 as day 1 (years from
\* 2025 on).
DayNumber(year, m, day) ==
  LET yearsBefore == 2025..(year - 1)
      monthsBefore == 1..(m - 1)
  IN  365 * Cardinality(yearsBefore)
        + Cardinality({y \in yearsBefore : IsLeap(y)})
        + Sum([k \in monthsBefore |-> DaysIn(k, year)])
        + day

\* The layouts parseFlexibleDate tries, in order.
formats ==
  <<"Monday, January 2, 2006", "January 2, 2006", "01/02/2006", "2006-01-02",
    "2006-01-02T15:04:05Z">>

\* time.Parse of a date text: only the layout with a weekday can take a text
\* that starts with one; the weekday must be a weekday name (it is not
\* compared with the date), the month a month name and the day a day of
\* that month.
timeParse(format, piece) ==
  IF /\ format = "Monday, January 2, 2006"
     /\ piece.weekday \in Weekdays
     /\ \E m \in 1..Len(Months) : Months[m] = piece.month
     /\ piece.day >= 1
     /\ piece.day <= DaysIn(MonthNumber(piece.month), piece.year)
  THEN [t |-> DayNumber(piece.year, MonthNumber(piece.month), piece.day),
        err |-> FALSE]
  ELSE [t |-> 0, err |-> TRUE]

\* parseFlexibleDate attempts to parse various date formats.
parseFlexibleDate(piece) ==
  LET parsing == {f \in 1..Len(formats) : ~timeParse(formats[f], piece).err}
  IN  IF parsing = {}
      THEN [t |-> 0, err |-> TRUE]
      ELSE timeParse(formats[CHOOSE f \in parsing : \A g \in parsing : f <= g],
                     piece)

\* The leftmost piece of the title that matches the date pattern (0: none).
firstDatePattern(title) ==
  LET matching == {i \in 1..Len(title) : MatchesDatePattern(title[i])}
  IN  IF matching = {} THEN 0
      ELSE CHOOSE i \in matching : \A j \in matching : i <= j

\* The optional group of datePartRegex: the date at i is followed by
\* "through" and a second text that matches the date pattern.
isDateRange(title, i) ==
  /\ i + 2 <= Len(title)
  /\ title[i + 1].kind = "through"
  /\ MatchesDatePattern(title[i + 2])

\* A single date whose window ends with its start.
singleDateNoWindow(single) == [start |-> single, end |-> single, err |-> FALSE]

\* return single, single.Add(24 * time.Hour), nil
singleDate(single) == [start |-> single, end |-> single + 1, err |-> FALSE]

\* parseTFRDatesFromTitle parses dates from TFR title format.
parseTFRDatesFromTitle(title) ==
  LET failed == [start |-> 0, end |-> 0, err |-> TRUE]
      i == firstDatePattern(title)
  IN  IF title = <<>> THEN failed
      ELSE IF i = 0 THEN failed
      ELSE IF isDateRange(title, i)
           THEN LET start == parseFlexibleDate(title[i])
                    end == parseFlexibleDate(title[i + 2])
                IN  IF start.err \/ end.err THEN failed
                    ELSE [start |-> start.t, end |-> end.t, err |-> FALSE]
           ELSE LET single == parseFlexibleDate(title[i])
                IN  IF single.err THEN failed ELSE singleDate(single.t)

\* Default dates that lie in the past.
defaultDatesExpired(n) == [start |-> n - 1, end |-> n - 1]

\* The dates of a TFR without clear date pattern: started yesterday, valid
\* for a year.
defaultDates(n) == [start |-> n - 1, end |-> n + 365]

\* webMercatorToWGS84 at the Web Mercator points of the model (y and x in
\* centimetres), rounded to a millionth of a degree.
MercatorTable ==
  <<<<0, 0, Origin>>,
    <<0, 1113195, Equator>>,
    <<488048466, -824877427, Near>>,
    <<486594228, -823764232, Home1>>,
    <<494300394, -823764232, Edge>>,
    <<496421825, -823764232, North>>,
    <<492183539, -823764232, South>>>>

webMercatorToWGS84(mercatorY, mercatorX) ==
  LET i == CHOOSE k \in 1..Len(MercatorTable) :
             MercatorTable[k][1] = mercatorY /\ MercatorTable[k][2] = mercatorX
  IN  MercatorTable[i][3]

\* calculatePolygonCenter with the distance to the first vertex as radius.
calculatePolygonCenterFirstVertex(coordinates) ==
  LET valid == SelectSeq(coordinates, LAMBDA coord : Len(coord) >= 2)
      validPoints == Len(valid)
      vertex == [k \in 1..validPoints |-> webMercatorToWGS84(valid[k][2], valid[k][1])]
      centerLat == Sum([k \in 1..validPoints |-> vertex[k].Latitude]) \div validPoints
      centerLon == Sum([k \in 1..validPoints |-> vertex[k].Longitude]) \div validPoints
  IN  IF validPoints = 0
      THEN [lat |-> 0, lon |-> 0, radius |-> 0]
      ELSE [lat |-> centerLat, lon |-> centerLon,
            radius |-> calculateDistance(centerLat, centerLon,
                                         vertex[1].Latitude, vertex[1].Longitude)]

\* calculatePolygonCenter calculates the centroid and approximate radius of
\* a polygon: the mean of its vertices and the largest distance from it to
\* a vertex.  A vertex is <<x, y>>; one with fewer than two numbers is
\* passed over.
calculatePolygonCenter(coordinates) ==
  LET valid == SelectSeq(coordinates, LAMBDA coord : Len(coord) >= 2)
      validPoints == Len(valid)
      vertex == [k \in 1..validPoints |-> webMercatorToWGS84(valid[k][2], valid[k][1])]
      centerLat == Sum([k \in 1..validPoints |-> vertex[k].Latitude]) \div validPoints
      centerLon == Sum([k \in 1..validPoints |-> vertex[k].Longitude]) \div validPoints
      distances == {calculateDistance(centerLat, centerLon,
                                      vertex[k].Latitude, vertex[k].Longitude) :
                      k \in 1..validPoints}
  IN  IF validPoints = 0
      THEN [lat |-> 0, lon |-> 0, radius |-> 0]
      ELSE [lat |-> centerLat, lon |-> centerLon,
            radius |-> CHOOSE d \in distances \cup {0} :
                         \A e \in distances \cup {0} : e <= d]

GeoJSONGeometry(type, coordinates) == [Type |-> type, Coordinates |-> coordinates]

GeoJSONFeature(notamKey, legalClass, title, geometry) ==
  [NotamKey |-> notamKey, LegalClass |-> legalClass, Title |-> title,
   Geometry |-> geometry]

\* The TFR parseGeoJSONTFRs makes of one feature at time n.
featureTFR(feature, n) ==
  LET parsed == parseTFRDatesFromTitle(feature.Title)
      dates == IF parsed.err THEN defaultDates(n)
               ELSE [start |-> parsed.start, end |-> parsed.end]
      polygon == /\ feature.Geometry.Type = "Polygon"
                 /\ Len(feature.Geometry.Coordinates) > 0
      center == IF polygon
                THEN calculatePolygonCenter(feature.Geometry.Coordinates[1])
                ELSE [lat |-> 0, lon |-> 0, radius |-> 0]
  IN  [ID |-> feature.NotamKey, Type |-> feature.LegalClass,
       StartTime |-> dates.start, EndTime |-> dates.end,
       Latitude |-> center.lat, Longitude |-> center.lon,
       Radius |-> center.radius]

\* parseGeoJSONTFRs parses TFR data from GeoJSON content: one TFR per
\* feature that has an ID and a type, in the order of the features.
RECURSIVE parseGeoJSONTFRs(_, _)
parseGeoJSONTFRs(features, n) ==
  IF features = <<>> THEN <<>>
  ELSE LET tfr == featureTFR(Head(features), n)
       IN  IF tfr.ID # "" /\ tfr.Type # ""
           THEN <<tfr>> \o parseGeoJSONTFRs(Tail(features), n)
           ELSE parseGeoJSONTFRs(Tail(features), n)

\* "Monday, January 13, 2025" and "Friday, December 19, 2025".
Jan13 == DateText("Monday", "January", 13, 2025)

Dec19 == DateText("Friday", "December", 19, 2025)

\* Titles of the features of the model: the range and the single date of
\* the FAA titles, titles with no date, dates that match the pattern and do
\* not parse (no such weekday, month or day), a date that does not match
\* the pattern in front of one that does, a leap day and a range whose end
\* is before its start.
FeedTitles ==
  {<<>>,
   <<Word("VIEQUES, PR,"), Jan13, Through, Dec19, Word("UTC")>>,
   <<Word("VIEQUES, PR,"), Jan13, Word("UTC")>>,
   <<Dec19>>,
   <<Jan13, Through, Word("further notice")>>,
   <<Word("Permanent restriction")>>,
   <<DateText("Someday", "January", 13, 2025)>>,
   <<DateText("Friday", "February", 30, 2025)>>,
   <<Jan13, Through, DateText("Friday", "Smarch", 19, 2025)>>,
   <<DateText("monday", "January", 13, 2025), Word("or"), Dec19>>,
   <<DateText("Tuesday", "February", 29, 2028)>>,
   <<Dec19, Through, Jan13>>}

\* A polygon around Near, a ring with a vertex of one number, a polygon
\* without ring, a polygon with an empty ring, a geometry that is no
\* polygon, a ring from Near to Home1, a ring with Near three times and
\* Home1 once, and a ring from 10 miles north to 10 miles south of Edge.
FeedGeometries ==
  {GeoJSONGeometry("Polygon", <<<<<<-824877427, 488048466>>, <<-824877427, 488048466>>>>>>),
   GeoJSONGeometry("Polygon", <<<<<<-824877427, 488048466>>, <<-823764232, 486594228>>>>>>),
   GeoJSONGeometry("Polygon", <<<<<<-824877427, 488048466>>, <<-824877427, 488048466>>,
                                 <<-824877427, 488048466>>, <<-823764232, 486594228>>>>>>),
   GeoJSONGeometry("Polygon", <<<<<<-823764232, 496421825>>, <<-823764232, 492183539>>>>>>),
   GeoJSONGeometry("Polygon", <<<<<<-824877427>>, <<-824877427, 488048466>>>>>>),
   GeoJSONGeometry("Polygon", <<>>),
   GeoJSONGeometry("Polygon", <<<<>>>>),
   GeoJSONGeometry("Point", <<>>)}

\* The features a body is made of: every title on a complete feature, every
\* geometry, and features without NOTAM key or without legal class.
FeedFeatures ==
  {GeoJSONFeature("5/1234", "SECURITY", title,
                  GeoJSONGeometry("Polygon",
                    <<<<<<-824877427, 488048466>>, <<-824877427, 488048466>>>>>>)) :
     title \in FeedTitles}
  \cup {GeoJSONFeature("5/5678", "HAZARDS", <<Word("Permanent restriction")>>, g) :
          g \in FeedGeometries}
  \cup {GeoJSONFeature(k, c, <<Jan13>>, GeoJSONGeometry("Point", <<>>)) :
          k \in {"", "5/9999"}, c \in {"", "SPACE OPERATIONS"}}

\* The bodies the FAA endpoint serves: up to MaxFeatures features.
FeedBodies == SeqsUpTo(FeedFeatures, MaxFeatures)

\* The days at which the feed is read: the first and the day after the last
\* day of the single date, a day within the range, the last day of the
\* range and the day after.
FeedClock == {13, 14, 200, 353, 354}

\* ------------------------------------------------------------------------
\* WeatherClient
\* ------------------------------------------------------------------------
WeatherData(temp, wind, vis, precip, hourly) ==
  [Temperature |-> temp, WindSpeed |-> wind, Visibility |-> vis,
   Precipitation |-> precip, HourlyData |-> hourly]

HourlyForecast(speeds, gusts) == [WindSpeeds |-> speeds, WindGusts |-> gusts]

\* The averages are set only when hourly data with wind speeds is present;
\* an unset float64 field reads 0.
AvgWindSpeedKmh(data) ==
  IF data.HourlyData # <<>> /\ Len(data.HourlyData[1].WindSpeeds) > 0
  THEN Sum(data.HourlyData[1].WindSpeeds) \div Len(data.HourlyData[1].WindSpeeds)
  ELSE 0

AvgWindGustsKmh(data) ==
  IF /\ data.HourlyData # <<>>
     /\ Len(data.HourlyData[1].WindSpeeds) > 0
     /\ Len(data.HourlyData[1].WindGusts) > 0
  THEN Sum(data.HourlyData[1].WindGusts) \div Len(data.HourlyData[1].WindGusts)
  ELSE 0

\* checkThreshold stopping at the first failure: later checks add nothing.
checkThresholdShortCircuit(analysis, failed, reason) ==
  IF failed /\ analysis.IsFlyable
  THEN [analysis EXCEPT !.IsFlyable = FALSE, !.Reasons = Append(@, reason)]
  ELSE analysis

\* checkThreshold recording the reason without clearing IsFlyable.
checkThresholdKeepsFlyable(analysis, failed, reason) ==
  IF failed
  THEN [analysis EXCEPT !.Reasons = Append(@, reason)]
  ELSE analysis

\* checkThreshold that also resets the wind reading of the observation
\* the analysis points to.
checkThresholdResettingData(analysis, failed, reason) ==
  IF failed
  THEN [analysis EXCEPT !.IsFlyable = FALSE, !.Reasons = Append(@, reason),
                        !.Data.WindSpeed = 0]
  ELSE analysis

\* One threshold check: a failing check clears IsFlyable and appends its
\* reason; a passing check leaves the analysis alone.
checkThreshold(analysis, failed, reason) ==
  IF failed
  THEN [analysis EXCEPT !.IsFlyable = FALSE, !.Reasons = Append(@, reason)]
  ELSE analysis

\* windForecast with the two middle labels exchanged.
windForecastExchanged(data) ==
  IF data.WindSpeed < 80 THEN "Very light winds, excellent conditions"
  ELSE IF data.WindSpeed < 160 THEN "Moderate winds, manageable"
  ELSE IF data.WindSpeed < 240 THEN "Light winds, good conditions"
  ELSE "Strong winds, challenging conditions"

\* The wind forecast label, from the current wind speed (km/h).
windForecast(data) ==
  IF data.WindSpeed < 80 THEN "Very light winds, excellent conditions"
  ELSE IF data.WindSpeed < 160 THEN "Light winds, good conditions"
  ELSE IF data.WindSpeed < 240 THEN "Moderate winds, manageable"
  ELSE "Strong winds, challenging conditions"

\* AnalyzeWeatherConditions for which a magnitude on its threshold already
\* violates it.
AnalyzeWeatherConditionsInclusive(w, data) ==
  LET a0 == [Data            |-> data,
             IsFlyable       |-> TRUE,
             Reasons         |-> <<>>,
             AvgWindSpeedKmh |-> AvgWindSpeedKmh(data),
             AvgWindGustsKmh |-> AvgWindGustsKmh(data),
             WindForecast    |-> "Light and stable through afternoon"]
      a1 == checkThreshold(a0, data.WindSpeed >= w.MaxWindSpeedKmh * 10,
                           "Wind speed too high")
      a2 == checkThreshold(a1, data.Visibility <= w.MinVisibilityKm * 10,
                           "Visibility too low")
      a3 == checkThreshold(a2, data.Precipitation >= w.MaxPrecipitationMm,
                           "Precipitation present")
      a4 == checkThreshold(a3, data.Temperature <= w.MinTempC,
                           "Temperature too low")
      a5 == checkThreshold(a4, data.Temperature >= w.MaxTempC,
                           "Temperature too high")
  IN  [a5 EXCEPT !.WindForecast = windForecast(data)]

\* AnalyzeWeatherConditions analyzes weather data against flying thresholds;
\* w is the configuration of the WeatherClient.
AnalyzeWeatherConditions(w, data) ==
  LET a0 == [Data            |-> data,
             IsFlyable       |-> TRUE,
             Reasons         |-> <<>>,
             AvgWindSpeedKmh |-> AvgWindSpeedKmh(data),
             AvgWindGustsKmh |-> AvgWindGustsKmh(data),
             WindForecast    |-> "Light and stable through afternoon"]
      a1 == checkThreshold(a0, data.WindSpeed > w.MaxWindSpeedKmh * 10,
                           "Wind speed too high")
      a2 == checkThreshold(a1, data.Visibility < w.MinVisibilityKm * 10,
                           "Visibility too low")
      a3 == checkThreshold(a2, data.Precipitation > w.MaxPrecipitationMm,
                           "Precipitation present")
      a4 == checkThreshold(a3, data.Temperature < w.MinTempC,
                           "Temperature too low")
      a5 == checkThreshold(a4, data.Temperature > w.MaxTempC,
                           "Temperature too high")
  IN  [a5 EXCEPT !.WindForecast = windForecast(data)]

\* Observations the weather feed may return to a run of the agent: the
\* perfect, windy and all-bad days of the tests, a day on every threshold,
\* and a good day with an hourly forecast.
AgentObservations ==
  {WeatherData(200, 144, 100, 0, <<>>),
   WeatherData(200, 288, 100, 0, <<>>),
   WeatherData(0, 360, 10, 20, <<>>),
   WeatherData(44, 250, 50, 0, <<>>),
   WeatherData(200, 144, 100, 0, <<HourlyForecast(<<100, 200>>, <<150, 300>>)>>)}

\* Hourly series of up to MaxSamples samples (0, 6 and 12 km/h).
HourlySeries == SeqsUpTo({0, 60, 120}, MaxSamples)

\* Observations the weather evaluator is checked with: every combination of
\* magnitudes below, on and above the thresholds and the wind forecast
\* breakpoints without hourly data, and a good day with every pair of
\* hourly wind speed and gust series.
WeatherObservations ==
  {WeatherData(t, ws, v, p, <<>>) :
     t \in {0, 44, 200, 350, 360},
     ws \in {0, 70, 79, 80, 144, 159, 160, 220, 239, 240, 250, 251, 300, 360},
     v \in {10, 50, 100},
     p \in {0, 20}}
  \cup {WeatherData(200, 144, 100, 0, <<HourlyForecast(s, g)>>) :
          s \in HourlySeries, g \in HourlySeries}

\* ------------------------------------------------------------------------
\* DroneWeatherAgent
\* ------------------------------------------------------------------------
VARIABLES
  client,       \* revision of TFRClient in use: "geojson" or "html"
  home,         \* config.DroneWeather.HomeLatitude / HomeLongitude
  feed,         \* the restrictions the FAA feed serves
  thresholds,   \* the thresholds of config.DroneWeather
  observations, \* the observations the weather API may return
  body,         \* the features the FAA GeoJSON endpoint serves
  inProgress,   \* RunOnce calls of the scheduled job that have not returned
  ticks,        \* times the cron schedule has fired
  skipped,      \* ticks the cron job wrapper skipped
  clock,        \* time.Now() of the YouTube curator, in days
  analyzedIDs,  \* VideoTracker.analyzedIDs: <<analyzedAt>> or <<>> per video
  file,         \* analyzed_videos.json: whether it decodes, and its videos
  curatorPc,    \* position of the curator: "stopped", "idle", "analyze", "failed"
  newVideos,    \* the videos RunOnce is about to pass to the analyzer
  markedAt,     \* per video, the last MarkMultipleAnalyzed: <<[at, saved]>>
  run,          \* number of RunOnce calls started
  pc,           \* position of RunOnce
  now,          \* time.Now() read by CheckTFRs (0: not read)
  weatherData,  \* <<data>> once GetCurrentWeather returned it, else <<>>
  analysis,     \* <<weatherAnalysis>> once computed, else <<>>
  allTFRs,      \* <<list>> once fetchActiveTFRs returned it, else <<>>
  tfrRet,       \* <<[check, err]>> once CheckTFRs returned, else <<>>
  tfrCheck,     \* <<tfrCheck>> as RunOnce carries it on, else <<>>
  isFlyable,    \* <<isFlyable>> once RunOnce decided, else <<>>
  metrics,      \* DroneMetrics of the run
  report,       \* <<DroneFlightReport>> once built, else <<>>
  events,       \* callbacks of AgentEvents invoked by the run, in order
  calls,        \* collaborators and steps the run went through, in order
  ret,          \* what RunOnce returned: "none" (still running), "nil", "error"
  faults,       \* collaborators that failed in the run: "weather", "tfr",
                \* "template", "smtp"
  outbox,       \* e-mails delivered by SendHTML, over all runs
  monitor,      \* the Monitor of the Scheduler
  tokenRefreshTicker, \* YouTubeAgent.tokenRefreshTicker: 0 for nil, else the
                      \* number of the ticker
  tokenRefreshStop,   \* YouTubeAgent.tokenRefreshStop: 0 for nil, else the
                      \* number of the channel
  tickers,      \* tickers created so far by time.NewTicker
  channels,     \* channels created so far by make(chan bool)
  stopped,      \* the tickers on which Stop was called
  closed,       \* the channels that were closed
  goroutines,   \* the refresher goroutines started so far: where each one
                \* is, and the ticker and the channel its select waits on
  threads,      \* where each caller of the refresher is: thread 0 is the
                \* main goroutine, the others call startTokenRefresher once
  history       \* the calls that returned, in order, each with the value
                \* of tokenRefreshTicker at its return

vars ==
  <<client, home, feed, thresholds, observations, body, inProgress, ticks,
    skipped, clock, analyzedIDs, file, curatorPc, newVideos, markedAt, run, pc, now, weatherData, analysis, allTFRs, tfrRet,
    tfrCheck, isFlyable, metrics, report, events, calls, ret, faults, outbox,
    monitor, tokenRefreshTicker, tokenRefreshStop, tickers, channels, stopped,
    closed, goroutines, threads, history>>

config == <<client, home, feed, thresholds, observations, body>>

\* The state of Scheduler.cron.
cron == <<inProgress, ticks, skipped>>

\* The state of the token refresher of the YouTube curator.
refresher ==
  <<tokenRefreshTicker, tokenRefreshStop, tickers, channels, stopped, closed,
    goroutines, threads, history>>

\* The state of the YouTube curator, its video tracker and its token
\* refresher.
curator ==
  <<clock, analyzedIDs, file, curatorPc, newVideos, markedAt,
    tokenRefreshTicker, tokenRefreshStop, tickers, channels, stopped, closed,
    goroutines, threads, history>>

\* The state of a call of RunOnce.
agentRun ==
  <<run, pc, now, weatherData, analysis, allTFRs, tfrRet, tfrCheck, isFlyable,
    metrics, report, events, calls, ret, faults>>

\* ------------------------------------------------------------------------
\* Monitor: the health of the service.  lastRunTime is 0 for the zero time;
\* a record stamps it with the number of the run, standing for time.Now().
\* The two assignments of a record are taken as one step.
\* ------------------------------------------------------------------------

\* NewMonitor returns &Monitor{}
NewMonitor == [lastRunSuccess |-> FALSE, lastRunTime |-> 0]

RecordSuccess(m, t) == [lastRunSuccess |-> TRUE, lastRunTime |-> t]

\* Don't change health status for partial failures
RecordPartialFailure(m, t) == m

RecordCriticalFailure(m, t) == [lastRunSuccess |-> FALSE, lastRunTime |-> t]

\* IsHealthy of the earlier Monitor: healthy whenever a run was recorded
\* recently, whatever its outcome.
IsHealthyAfterAnyRun(m) ==
  IF IsZero(m.lastRunTime) THEN TRUE ELSE m.lastRunTime >= 0

\* IsHealthy: healthy if no run yet, else if the last run was successful.
IsHealthy(m) ==
  IF IsZero(m.lastRunTime) THEN TRUE ELSE m.lastRunSuccess

\* The event handlers Scheduler.RunOnce creates for monitoring.
AgentEvents(m, event, t) ==
  CASE event = "OnSuccess"         -> RecordSuccess(m, t)
    [] event = "OnPartialFailure"  -> RecordPartialFailure(m, t)
    [] event = "OnCriticalFailure" -> RecordCriticalFailure(m, t)

RECURSIVE reportEvents(_, _, _)
\* The handlers invoked for the events of a step, in order.
reportEvents(m, reported, t) ==
  IF reported = <<>> THEN m
  ELSE reportEvents(AgentEvents(m, Head(reported), t), Tail(reported), t)

\* Scheduler.RunOnce around a step of agent.RunOnce: the handlers the step
\* invokes and, when the step returns an error, RecordCriticalFailure.
SchedulerRunOnce(m, before, after, returned, t) ==
  LET reported == reportEvents(m, SubSeq(after, Len(before) + 1, Len(after)), t)
  IN  IF returned = "error" THEN RecordCriticalFailure(reported, t)
      ELSE reported

\* metrics := DroneMetrics{}
DroneMetrics ==
  [WeatherFetched |-> FALSE, TFRsChecked |-> FALSE,
   IsFlyable |-> FALSE, EmailSent |-> FALSE]

\* The TFR check RunOnce substitutes when CheckTFRs returned an error.
defaultTFRCheck ==
  [HasActiveTFRs |-> TRUE,
   ActiveTFRs    |-> <<>>,
   CheckRadius   |-> SearchRadiusMiles,
   Summary       |-> <<"TFR check failed - verify airspace restrictions",
                       "manually", "before flying">>]

\* Mutant of tfrCheckOf: the check CheckTFRs returned is kept on an error.
tfrCheckOfReturned(r) == r.check

\* The tfrCheck RunOnce carries on after CheckTFRs returned r.
tfrCheckOf(r) == IF r.err THEN defaultTFRCheck ELSE r.check

\* Mutant of partialFailure: a failed check is not reported.
partialFailureSilent(r) == <<>>

\* The callbacks RunOnce invokes for the return r of CheckTFRs: a failed
\* check is a partial failure.
partialFailure(r) == IF r.err THEN <<"OnPartialFailure">> ELSE <<>>

\* Mutant of decideFlyable: active restrictions veto the flight.
decideFlyableUnlessRestricted(weatherAnalysis, check) ==
  weatherAnalysis.IsFlyable /\ ~check.HasActiveTFRs

\* isFlyable := weatherAnalysis.IsFlyable
decideFlyable(weatherAnalysis, check) == weatherAnalysis.IsFlyable

\* An e-mail sent whatever the conditions.
sendsEmailAlways(flyable) == TRUE

\* if isFlyable { ... send the e-mail ... }
sendsEmail(flyable) == flyable

\* ------------------------------------------------------------------------
\* YouTube curator: VideoTracker and the deduplication of RunOnce.  Times
\* are days.
\* ------------------------------------------------------------------------
Videos == {"v1", "v2"}

\* storage.NewVideoTracker("data", 7*24*time.Hour)
maxAge == 7

\* No video tracked.
NoVideos == [v \in Videos |-> <<>>]

\* IsAnalyzed still answering yes when maxAge has just elapsed.
IsAnalyzedInclusive(ids, videoID, t) ==
  IF ids[videoID] = <<>> THEN FALSE ELSE t - ids[videoID][1] <= maxAge

\* IsAnalyzed checks if a video ID has been analyzed recently:
\* time.Since(analyzedAt) < vt.maxAge
IsAnalyzed(ids, videoID, t) ==
  IF ids[videoID] = <<>> THEN FALSE ELSE t - ids[videoID][1] < maxAge

\* cleanup removes entries older than maxAge: analyzedAt.Before(cutoff)
cleanup(ids, t) ==
  [v \in Videos |-> IF ids[v] # <<>> /\ ids[v][1] < t - maxAge THEN <<>> ELSE ids[v]]

\* MarkMultipleAnalyzed on the map: every video of videoIDs gets time t.
markMultiple(ids, videoIDs, t) ==
  [v \in Videos |->
     IF \E i \in 1..Len(videoIDs) : videoIDs[i] = v THEN <<t>> ELSE ids[v]]

\* The filter of RunOnce: the videos that are not already analyzed.
filterNewVideos(ids, videos, t) ==
  SelectSeq(videos, LAMBDA video : ~IsAnalyzed(ids, video, t))

\* The analysis loop of RunOnce over videos[i..]: outcome[i] is what
\* AnalyzeVideo returns for the i-th video ("ok", "short" or "error").  The
\* loop gives up when more than half of the videos have failed.
RECURSIVE analysisLoop(_, _, _, _, _)
analysisLoop(videos, outcome, i, analysisErrors, analyzedVideoIDs) ==
  IF i > Len(videos)
  THEN [stopped |-> FALSE, analyzedVideoIDs |-> analyzedVideoIDs]
  ELSE IF outcome[i] = "short"
       THEN analysisLoop(videos, outcome, i + 1, analysisErrors, analyzedVideoIDs)
  ELSE IF outcome[i] = "error"
       THEN IF analysisErrors + 1 > Len(videos) \div 2
            THEN [stopped |-> TRUE, analyzedVideoIDs |-> analyzedVideoIDs]
            ELSE analysisLoop(videos, outcome, i + 1, analysisErrors + 1,
                              analyzedVideoIDs)
  ELSE analysisLoop(videos, outcome, i + 1, analysisErrors,
                    Append(analyzedVideoIDs, videos[i]))

\* The callers of the refresher: the main goroutine and the goroutines
\* that call startTokenRefresher concurrently.
Threads == 0..MaxStarters

\* A refresher goroutine: pc is "for" (about to evaluate the channels of
\* the select), "select" (waiting on ticker and stop), "refresh" (in the
\* tick case), "returned" or "panic".
Goroutine(at, ticker, stop) == [pc |-> at, ticker |-> ticker, stop |-> stop]

Live(g) == g.pc \in {"for", "select", "refresh"}

\* NewYouTubeAgent: ticker and stop channel are nil, nothing runs.
NewYouTubeAgent ==
  /\ tokenRefreshTicker = 0
  /\ tokenRefreshStop = 0
  /\ tickers = 0
  /\ channels = 0
  /\ stopped = {}
  /\ closed = {}
  /\ goroutines = <<>>
  /\ history = <<>>

\* The tracker before Initialize, with no tracker file content.
TrackerEmpty ==
  /\ clock = 0
  /\ analyzedIDs = NoVideos
  /\ file = [readable |-> TRUE, videos |-> NoVideos]
  /\ curatorPc = "stopped"
  /\ newVideos = <<>>
  /\ markedAt = NoVideos

\* The curator before Initialize, with no tracker file content and nobody
\* calling the refresher.
CuratorStopped ==
  /\ TrackerEmpty
  /\ NewYouTubeAgent
  /\ threads = [t \in Threads |-> "done"]

\* A start that never finds the refresher running.
alreadyRunningNever(ticker) == FALSE

\* if y.tokenRefreshTicker != nil: already running.
alreadyRunning(ticker) == ticker # 0

\* Where a thread is after its call returned: the main goroutine is ready
\* for its next call, a concurrent starter is done.
returnTo(t) == IF t = 0 THEN "ready" ELSE "done"

\* startTokenRefresher, the test of the ticker: return if it is running.
StartCheck(t) ==
  /\ threads[t] = "startTokenRefresher"
  /\ IF alreadyRunning(tokenRefreshTicker)
     THEN /\ threads' = [threads EXCEPT ![t] = returnTo(t)]
          /\ history' = Append(history, [op |-> "start", ticker |-> tokenRefreshTicker])
     ELSE /\ threads' = [threads EXCEPT ![t] = "NewTicker"]
          /\ history' = history
  /\ UNCHANGED <<tokenRefreshTicker, tokenRefreshStop, tickers, channels, stopped,
                 closed, goroutines>>

\* y.tokenRefreshTicker = time.NewTicker(interval)
NewTicker(t) ==
  /\ threads[t] = "NewTicker"
  /\ tickers' = tickers + 1
  /\ tokenRefreshTicker' = tickers + 1
  /\ threads' = [threads EXCEPT ![t] = "make"]
  /\ UNCHANGED <<tokenRefreshStop, channels, stopped, closed, goroutines, history>>

\* y.tokenRefreshStop = make(chan bool)
MakeStop(t) ==
  /\ threads[t] = "make"
  /\ channels' = channels + 1
  /\ tokenRefreshStop' = channels + 1
  /\ threads' = [threads EXCEPT ![t] = "go"]
  /\ UNCHANGED <<tokenRefreshTicker, tickers, stopped, closed, goroutines, history>>

\* go func() { ... }() and the return of startTokenRefresher.
Go(t) ==
  /\ threads[t] = "go"
  /\ goroutines' = Append(goroutines, Goroutine("for", 0, 0))
  /\ threads' = [threads EXCEPT ![t] = returnTo(t)]
  /\ history' = Append(history, [op |-> "start", ticker |-> tokenRefreshTicker])
  /\ UNCHANGED <<tokenRefreshTicker, tokenRefreshStop, tickers, channels, stopped,
                 closed>>

\* StopTokenRefresher, the test of the ticker: return if it is nil.
StopCheck(t) ==
  /\ threads[t] = "StopTokenRefresher"
  /\ IF tokenRefreshTicker # 0
     THEN /\ threads' = [threads EXCEPT ![t] = "Stop"]
          /\ history' = history
     ELSE /\ threads' = [threads EXCEPT ![t] = returnTo(t)]
          /\ history' = Append(history, [op |-> "stop", ticker |-> tokenRefreshTicker])
  /\ UNCHANGED <<tokenRefreshTicker, tokenRefreshStop, tickers, channels, stopped,
                 closed, goroutines>>

\* y.tokenRefreshTicker.Stop() and the test of the stop channel.
TickerStop(t) ==
  /\ threads[t] = "Stop"
  /\ stopped' = stopped \cup {tokenRefreshTicker}
  /\ threads' = [threads EXCEPT ![t] = IF tokenRefreshStop # 0 THEN "send"
                                       ELSE "clearTicker"]
  /\ UNCHANGED <<tokenRefreshTicker, tokenRefreshStop, tickers, channels, closed,
                 goroutines, history>>

\* y.tokenRefreshStop <- true: the channel has no buffer, so the send
\* waits for a goroutine whose select receives from this channel; that
\* goroutine returns.
Send(t) ==
  /\ threads[t] = "send"
  /\ \E g \in 1..Len(goroutines) :
       /\ goroutines[g].pc = "select"
       /\ goroutines[g].stop = tokenRefreshStop
       /\ goroutines' = [goroutines EXCEPT ![g].pc = "returned"]
  /\ threads' = [threads EXCEPT ![t] = "close"]
  /\ UNCHANGED <<tokenRefreshTicker, tokenRefreshStop, tickers, channels, stopped,
                 closed, history>>

\* close(y.tokenRefreshStop)
Close(t) ==
  /\ threads[t] = "close"
  /\ closed' = closed \cup {tokenRefreshStop}
  /\ threads' = [threads EXCEPT ![t] = "clearTicker"]
  /\ UNCHANGED <<tokenRefreshTicker, tokenRefreshStop, tickers, channels, stopped,
                 goroutines, history>>

\* y.tokenRefreshTicker = nil
ClearTicker(t) ==
  /\ threads[t] = "clearTicker"
  /\ tokenRefreshTicker' = 0
  /\ threads' = [threads EXCEPT ![t] = "clearStop"]
  /\ UNCHANGED <<tokenRefreshStop, tickers, channels, stopped, closed, goroutines,
                 history>>

\* y.tokenRefreshStop = nil and the return of StopTokenRefresher.
ClearStop(t) ==
  /\ threads[t] = "clearStop"
  /\ tokenRefreshStop' = 0
  /\ threads' = [threads EXCEPT ![t] = returnTo(t)]
  /\ history' = Append(history, [op |-> "stop", ticker |-> tokenRefreshTicker])
  /\ UNCHANGED <<tokenRefreshTicker, tickers, channels, stopped, closed, goroutines>>

\* The goroutine enters its select: it evaluates y.tokenRefreshTicker.C,
\* which panics on a nil ticker, and y.tokenRefreshStop.
EnterSelect(g) ==
  /\ goroutines[g].pc = "for"
  /\ goroutines' =
       [goroutines EXCEPT ![g] =
          IF tokenRefreshTicker = 0
          THEN Goroutine("panic", 0, 0)
          ELSE Goroutine("select", tokenRefreshTicker, tokenRefreshStop)]
  /\ UNCHANGED <<tokenRefreshTicker, tokenRefreshStop, tickers, channels, stopped,
                 closed, threads, history>>

\* The select proceeds on its own: a tick of a ticker that was not stopped
\* starts a refresh, a receive from a closed stop channel makes the
\* goroutine return.
Select(g) ==
  /\ goroutines[g].pc = "select"
  /\ \/ /\ goroutines[g].ticker \notin stopped
        /\ goroutines' = [goroutines EXCEPT ![g].pc = "refresh"]
     \/ /\ goroutines[g].stop \in closed
        /\ goroutines' = [goroutines EXCEPT ![g].pc = "returned"]
  /\ UNCHANGED <<tokenRefreshTicker, tokenRefreshStop, tickers, channels, stopped,
                 closed, threads, history>>

\* The tick case is over (RefreshToken, or nothing without a client): the
\* goroutine is back at the top of its loop.
RefreshToken(g) ==
  /\ goroutines[g].pc = "refresh"
  /\ goroutines' = [goroutines EXCEPT ![g].pc = "for"]
  /\ UNCHANGED <<tokenRefreshTicker, tokenRefreshStop, tickers, channels, stopped,
                 closed, threads, history>>

\* Initialize, at start and at every restart of the process: the token
\* refresher of the new process is started, NewVideoTracker loads the file
\* and cleans up; a file that does not decode fails the initialization.
InitializeCurator ==
  /\ curatorPc \in {"stopped", "idle"}
  /\ IF file.readable
     THEN /\ analyzedIDs' = cleanup(file.videos, clock)
          /\ curatorPc' = "idle"
     ELSE /\ analyzedIDs' = NoVideos
          /\ curatorPc' = "failed"
  /\ newVideos' = <<>>
  /\ tokenRefreshTicker' = 1
  /\ tokenRefreshStop' = 1
  /\ tickers' = 1
  /\ channels' = 1
  /\ stopped' = {}
  /\ closed' = {}
  /\ goroutines' = <<Goroutine("for", 0, 0)>>
  /\ UNCHANGED <<monitor, config, cron, agentRun, outbox, clock, file, markedAt,
                 threads, history>>

\* A day passes.
Tick ==
  /\ clock < MaxClock
  /\ clock' = clock + 1
  /\ UNCHANGED <<monitor, config, cron, agentRun, outbox, analyzedIDs, file, curatorPc,
                 newVideos, markedAt, refresher>>

\* YouTubeAgent.RunOnce up to the analysis: the subscription videos are
\* fetched and those already analyzed are filtered out; with nothing left
\* the run is over.
FilterVideos ==
  /\ curatorPc = "idle"
  /\ \E videos \in SeqsUpTo(Videos, MaxVideos) :
       LET new == filterNewVideos(analyzedIDs, videos, clock)
       IN  /\ newVideos' = new
           /\ curatorPc' = IF new = <<>> THEN "idle" ELSE "analyze"
  /\ UNCHANGED <<monitor, config, cron, agentRun, outbox, clock, analyzedIDs, file,
                 markedAt, refresher>>

\* YouTubeAgent.RunOnce from the analysis on: the new videos go to the
\* analyzer and those analyzed are marked; MarkMultipleAnalyzed sets the map
\* and saves the file, and a failed save leaves the file as it was or
\* truncated.
AnalyzeVideos ==
  /\ curatorPc = "analyze"
  /\ \E outcome \in [1..Len(newVideos) -> {"ok", "short", "error"}] :
       LET loop == analysisLoop(newVideos, outcome, 1, 0, <<>>)
           ids == loop.analyzedVideoIDs
           marked == markMultiple(analyzedIDs, ids, clock)
       IN  IF loop.stopped \/ ids = <<>>
           THEN UNCHANGED <<analyzedIDs, file, markedAt>>
           ELSE /\ analyzedIDs' = marked
                /\ \E saved \in BOOLEAN :
                     /\ file' \in IF saved
                                  THEN {[readable |-> TRUE, videos |-> marked]}
                                  ELSE {file, [readable |-> FALSE, videos |-> NoVideos]}
                     /\ markedAt' =
                          [v \in Videos |->
                             IF \E i \in 1..Len(ids) : ids[i] = v
                             THEN <<[at |-> clock, saved |-> saved]>>
                             ELSE markedAt[v]]
  /\ curatorPc' = "idle"
  /\ newVideos' = <<>>
  /\ UNCHANGED <<monitor, config, cron, agentRun, outbox, clock, refresher>>

\* The state of a run that has not started.
Idle ==
  /\ run = 0
  /\ pc = "idle"
  /\ now = 0
  /\ weatherData = <<>>
  /\ analysis = <<>>
  /\ allTFRs = <<>>
  /\ tfrRet = <<>>
  /\ tfrCheck = <<>>
  /\ isFlyable = <<>>
  /\ metrics = DroneMetrics
  /\ report = <<>>
  /\ events = <<>>
  /\ calls = <<>>
  /\ ret = "none"
  /\ faults = {}
  /\ outbox = 0
  /\ monitor = NewMonitor

Init ==
  /\ client \in {"geojson", "html"}
  /\ home \in Homes
  /\ feed \in AgentFeeds
  /\ thresholds = DefaultThresholds
  /\ observations = AgentObservations
  /\ body = <<>>
  /\ inProgress = 0
  /\ ticks = 0
  /\ skipped = 0
  /\ CuratorStopped
  /\ Idle

\* RunOnce is entered: startTime := time.Now(); metrics := DroneMetrics{}
enterRunOnce ==
  /\ run' = run + 1
  /\ pc' = "fetchWeather"
  /\ now' = 0
  /\ weatherData' = <<>>
  /\ analysis' = <<>>
  /\ allTFRs' = <<>>
  /\ tfrRet' = <<>>
  /\ tfrCheck' = <<>>
  /\ isFlyable' = <<>>
  /\ metrics' = DroneMetrics
  /\ report' = <<>>
  /\ events' = <<>>
  /\ calls' = <<>>
  /\ ret' = "none"
  /\ faults' = {}

\* A call of RunOnce when none is in progress.
StartRun ==
  /\ pc \in {"idle", "done"}
  /\ run < MaxRuns
  /\ enterRunOnce
  /\ UNCHANGED <<monitor, config, cron, curator, outbox>>

\* onWeatherError reporting the failure as a partial one.
onWeatherErrorPartial == [event |-> "OnPartialFailure", ret |-> "error", pc |-> "done"]

\* Mutant of onWeatherError: the error is reported but not returned.
onWeatherErrorSwallowed == [event |-> "OnCriticalFailure", ret |-> "nil", pc |-> "done"]

\* Mutant of onWeatherError: the run goes on to the decision.
onWeatherErrorComposes == [event |-> "OnCriticalFailure", ret |-> "error", pc |-> "compose"]

\* What RunOnce does when GetCurrentWeather failed: the callback it invokes,
\* what it returns and where it goes.
onWeatherError == [event |-> "OnCriticalFailure", ret |-> "error", pc |-> "done"]

\* GetCurrentWeather and, when it succeeds, AnalyzeWeatherConditions.
FetchWeather ==
  /\ pc = "fetchWeather"
  /\ calls' = Append(calls, "GetCurrentWeather")
  /\ \/ /\ faults' = faults \cup {"weather"}
        /\ events' = Append(events, onWeatherError.event)
        /\ ret' = onWeatherError.ret
        /\ pc' = onWeatherError.pc
        /\ UNCHANGED <<weatherData, analysis, metrics>>
     \/ \E data \in observations :
          /\ weatherData' = <<data>>
          /\ metrics' = [metrics EXCEPT !.WeatherFetched = TRUE]
          /\ analysis' = <<AnalyzeWeatherConditions(thresholds, data)>>
          /\ pc' = "checkTFRs"
          /\ UNCHANGED <<events, ret, faults>>
  /\ UNCHANGED <<config, cron, curator, run, now, allTFRs, tfrRet, tfrCheck, isFlyable,
                 report, outbox>>
  /\ monitor' = SchedulerRunOnce(monitor, events, events',
                               IF ret' # ret THEN ret' ELSE "none", run)

\* d.tfrClient.CheckTFRs(ctx, HomeLatitude, HomeLongitude)
CheckTFRs ==
  /\ pc = "checkTFRs"
  /\ calls' = Append(calls, "CheckTFRs")
  /\ \/ /\ faults' = faults \cup {"tfr"}
        /\ allTFRs' = <<>>
        /\ now' = now
        /\ tfrRet' = <<CheckTFRsResult(client, FALSE, <<>>,
                                       home.Latitude, home.Longitude, now)>>
     \/ \E n \in 1..MaxTime :
          /\ faults' = faults
          /\ allTFRs' = <<feed>>
          /\ now' = n
          /\ tfrRet' = <<CheckTFRsResult(client, TRUE, feed,
                                         home.Latitude, home.Longitude, n)>>
  /\ pc' = "compose"
  /\ UNCHANGED <<monitor, config, cron, curator, run, weatherData, analysis, tfrCheck, isFlyable,
                 metrics, report, events, ret, outbox>>

\* CheckTFRs of the GeoJSON client.
CheckTFRsGeoJSON == client = "geojson" /\ CheckTFRs

\* CheckTFRs of the HTML client.
CheckTFRsHTML == client = "html" /\ CheckTFRs

\* RunOnce from the return of CheckTFRs to the decision: the partial
\* failure, the default check, isFlyable, and either the report or the end
\* of a run that sends no e-mail.
Compose ==
  /\ pc = "compose"
  /\ LET r == tfrRet[1]
         check == tfrCheckOf(r)
         flyable == decideFlyable(analysis[1], check)
     IN  /\ calls' = Append(calls, "compose")
         /\ tfrCheck' = <<check>>
         /\ isFlyable' = <<flyable>>
         /\ metrics' = [metrics EXCEPT !.TFRsChecked = ~r.err,
                                       !.IsFlyable = flyable]
         /\ IF sendsEmail(flyable)
            THEN /\ report' = <<[WeatherAnalysis |-> analysis[1],
                                 TFRCheck        |-> check,
                                 IsFlyable       |-> TRUE,
                                 Summary         |-> "Excellent conditions for drone flying!"]>>
                 /\ events' = events \o partialFailure(r)
                 /\ pc' = "generateEmail"
                 /\ ret' = ret
            ELSE /\ report' = report
                 /\ events' = events \o partialFailure(r) \o <<"OnSuccess">>
                 /\ pc' = "done"
                 /\ ret' = "nil"
  /\ UNCHANGED <<config, cron, curator, run, now, weatherData, analysis, allTFRs, tfrRet,
                 faults, outbox>>
  /\ monitor' = SchedulerRunOnce(monitor, events, events',
                               IF ret' # ret THEN ret' ELSE "none", run)

\* d.generateEmailBody(report)
GenerateEmailBody ==
  /\ pc = "generateEmail"
  /\ calls' = Append(calls, "generateEmailBody")
  /\ \/ /\ faults' = faults \cup {"template"}
        /\ events' = Append(events, "OnCriticalFailure")
        /\ ret' = "error"
        /\ pc' = "done"
     \/ /\ pc' = "sendEmail"
        /\ UNCHANGED <<events, ret, faults>>
  /\ UNCHANGED <<config, cron, curator, run, now, weatherData, analysis, allTFRs, tfrRet,
                 tfrCheck, isFlyable, metrics, report, outbox>>
  /\ monitor' = SchedulerRunOnce(monitor, events, events',
                               IF ret' # ret THEN ret' ELSE "none", run)

\* d.emailSender.SendHTML(subject, body) and the end of the run.
SendHTML ==
  /\ pc = "sendEmail"
  /\ calls' = Append(calls, "SendHTML")
  /\ \/ /\ faults' = faults \cup {"smtp"}
        /\ events' = Append(events, "OnCriticalFailure")
        /\ ret' = "error"
        /\ UNCHANGED <<metrics, outbox>>
     \/ /\ faults' = faults
        /\ outbox' = outbox + 1
        /\ metrics' = [metrics EXCEPT !.EmailSent = TRUE]
        /\ events' = Append(events, "OnSuccess")
        /\ ret' = "nil"
  /\ pc' = "done"
  /\ UNCHANGED <<config, cron, curator, run, now, weatherData, analysis, allTFRs, tfrRet,
                 tfrCheck, isFlyable, report>>
  /\ monitor' = SchedulerRunOnce(monitor, events, events',
                               IF ret' # ret THEN ret' ELSE "none", run)

Next ==
  \/ StartRun
  \/ FetchWeather
  \/ CheckTFRsGeoJSON
  \/ CheckTFRsHTML
  \/ Compose
  \/ GenerateEmailBody
  \/ SendHTML

Spec == Init /\ [][Next]_vars

\* ------------------------------------------------------------------------
\* The proximity filter on its own: CheckTFRs applied, in a run whose
\* weather fetch succeeded, to every feed of FilterFeeds.
\* ------------------------------------------------------------------------
InitFilter ==
  /\ client \in {"geojson", "html"}
  /\ home \in Homes
  /\ feed \in FilterFeeds
  /\ thresholds = DefaultThresholds
  /\ observations = AgentObservations
  /\ body = <<>>
  /\ inProgress = 0
  /\ ticks = 0
  /\ skipped = 0
  /\ CuratorStopped
  /\ run = 1
  /\ pc = "checkTFRs"
  /\ now = 0
  /\ weatherData = <<WeatherData(200, 144, 100, 0, <<>>)>>
  /\ analysis = <<AnalyzeWeatherConditions(DefaultThresholds,
                                           WeatherData(200, 144, 100, 0, <<>>))>>
  /\ allTFRs = <<>>
  /\ tfrRet = <<>>
  /\ tfrCheck = <<>>
  /\ isFlyable = <<>>
  /\ metrics = [DroneMetrics EXCEPT !.WeatherFetched = TRUE]
  /\ report = <<>>
  /\ events = <<>>
  /\ calls = <<"GetCurrentWeather">>
  /\ ret = "none"
  /\ faults = {}
  /\ outbox = 0
  /\ monitor = NewMonitor

NextFilter ==
  \/ CheckTFRsGeoJSON
  \/ CheckTFRsHTML

SpecFilter == InitFilter /\ [][NextFilter]_vars

\* ------------------------------------------------------------------------
\* The scheduler: the cron job of Scheduler.Start, wrapped by
\* cron.SkipIfStillRunning, calls RunOnce at every tick of the schedule.
\* ------------------------------------------------------------------------

\* A job wrapper that never finds the job running.
stillRunningNever(n) == FALSE

\* The test of cron.SkipIfStillRunning: a call of the job has not returned.
stillRunning(n) == n > 0

\* The schedule fires: the wrapped job is skipped, or it calls RunOnce.
CronTick ==
  /\ ticks < MaxTicks
  /\ ticks' = ticks + 1
  /\ IF stillRunning(inProgress)
     THEN /\ skipped' = skipped + 1
          /\ UNCHANGED <<monitor, config, curator, agentRun, inProgress, outbox>>
     ELSE /\ inProgress' = inProgress + 1
          /\ enterRunOnce
          /\ UNCHANGED <<monitor, config, curator, skipped, outbox>>

\* RunOnce has returned to the job wrapper, which lets the next tick in.
JobReturns ==
  /\ pc = "done"
  /\ inProgress > 0
  /\ inProgress' = inProgress - 1
  /\ pc' = "idle"
  /\ UNCHANGED <<monitor, config, curator, ticks, skipped, run, now, weatherData, analysis,
                 allTFRs, tfrRet, tfrCheck, isFlyable, metrics, report, events,
                 calls, ret, faults, outbox>>

InitScheduler ==
  /\ client = "geojson"
  /\ home = Home1
  /\ feed \in {<<>>, <<TFR(1, MaxTime, Near, 1000)>>}
  /\ thresholds = DefaultThresholds
  /\ observations = AgentObservations
  /\ body = <<>>
  /\ inProgress = 0
  /\ ticks = 0
  /\ skipped = 0
  /\ CuratorStopped
  /\ Idle

NextScheduler ==
  \/ CronTick
  \/ JobReturns
  \/ FetchWeather
  \/ CheckTFRsGeoJSON
  \/ Compose
  \/ GenerateEmailBody
  \/ SendHTML

SpecScheduler == InitScheduler /\ [][NextScheduler]_vars

\* ------------------------------------------------------------------------
\* The YouTube curator: restarts, days passing and runs.
\* ------------------------------------------------------------------------
InitCurator ==
  /\ client = "geojson"
  /\ home = Home1
  /\ feed = <<>>
  /\ thresholds = DefaultThresholds
  /\ observations = AgentObservations
  /\ body = <<>>
  /\ inProgress = 0
  /\ ticks = 0
  /\ skipped = 0
  /\ CuratorStopped
  /\ Idle

NextCurator ==
  \/ InitializeCurator
  \/ Tick
  \/ FilterVideos
  \/ AnalyzeVideos

SpecCurator == InitCurator /\ [][NextCurator]_vars

\* ------------------------------------------------------------------------
\* The GeoJSON feed on its own: fetchActiveTFRs of the GeoJSON client, for
\* every body of FeedBodies read at every day of FeedClock.
\* ------------------------------------------------------------------------
InitFeed ==
  /\ client = "geojson"
  /\ home = Home1
  /\ feed = <<>>
  /\ thresholds = DefaultThresholds
  /\ observations = AgentObservations
  /\ body \in FeedBodies
  /\ inProgress = 0
  /\ ticks = 0
  /\ skipped = 0
  /\ CuratorStopped
  /\ run = 1
  /\ pc = "fetchActiveTFRs"
  /\ now = 0
  /\ weatherData = <<WeatherData(200, 144, 100, 0, <<>>)>>
  /\ analysis = <<AnalyzeWeatherConditions(DefaultThresholds,
                                           WeatherData(200, 144, 100, 0, <<>>))>>
  /\ allTFRs = <<>>
  /\ tfrRet = <<>>
  /\ tfrCheck = <<>>
  /\ isFlyable = <<>>
  /\ metrics = [DroneMetrics EXCEPT !.WeatherFetched = TRUE]
  /\ report = <<>>
  /\ events = <<>>
  /\ calls = <<"GetCurrentWeather">>
  /\ ret = "none"
  /\ faults = {}
  /\ outbox = 0
  /\ monitor = NewMonitor

\* fetchActiveTFRs of the GeoJSON client: the request fails, or the body is
\* parsed by parseGeoJSONTFRs at time n.
FetchActiveTFRs ==
  /\ pc = "fetchActiveTFRs"
  /\ \/ /\ faults' = faults \cup {"tfr"}
        /\ UNCHANGED <<allTFRs, now>>
     \/ \E n \in FeedClock :
          /\ now' = n
          /\ allTFRs' = <<parseGeoJSONTFRs(body, n)>>
          /\ faults' = faults
  /\ pc' = "fetched"
  /\ UNCHANGED <<monitor, config, cron, curator, run, weatherData, analysis, tfrRet, tfrCheck,
                 isFlyable, metrics, report, events, calls, ret, outbox>>

\* CheckTFRs of the GeoJSON client once fetchActiveTFRs returned: the error
\* is passed on with an empty check, or the TFRs are filtered.
FilterFetched ==
  /\ pc = "fetched"
  /\ calls' = Append(calls, "CheckTFRs")
  /\ tfrRet' = <<CheckTFRsResult(client, "tfr" \notin faults,
                                 IF allTFRs = <<>> THEN <<>> ELSE allTFRs[1],
                                 home.Latitude, home.Longitude, now)>>
  /\ pc' = "compose"
  /\ UNCHANGED <<monitor, config, cron, curator, run, now, weatherData, analysis, allTFRs,
                 tfrCheck, isFlyable, metrics, report, events, ret, faults, outbox>>

NextFeed ==
  \/ FetchActiveTFRs
  \/ FilterFetched

SpecFeed == InitFeed /\ [][NextFeed]_vars

\* ------------------------------------------------------------------------
\* The weather evaluator on its own: the first step of RunOnce, for every
\* threshold configuration and every observation of WeatherObservations.
\* ------------------------------------------------------------------------
InitWeather ==
  /\ client = "geojson"
  /\ home = Home1
  /\ feed = <<>>
  /\ thresholds \in ThresholdConfigs
  /\ observations = WeatherObservations
  /\ body = <<>>
  /\ inProgress = 0
  /\ ticks = 0
  /\ skipped = 0
  /\ CuratorStopped
  /\ run = 1
  /\ pc = "fetchWeather"
  /\ now = 0
  /\ weatherData = <<>>
  /\ analysis = <<>>
  /\ allTFRs = <<>>
  /\ tfrRet = <<>>
  /\ tfrCheck = <<>>
  /\ isFlyable = <<>>
  /\ metrics = DroneMetrics
  /\ report = <<>>
  /\ events = <<>>
  /\ calls = <<>>
  /\ ret = "none"
  /\ faults = {}
  /\ outbox = 0
  /\ monitor = NewMonitor

NextWeather == FetchWeather

SpecWeather == InitWeather /\ [][NextWeather]_vars

\* ------------------------------------------------------------------------
\* The token refresher, called from one goroutine: the main goroutine calls
\* startTokenRefresher and StopTokenRefresher in any order, one call after
\* the other, while the refresher goroutine runs.
\* ------------------------------------------------------------------------
InitLifecycle ==
  /\ client = "geojson"
  /\ home = Home1
  /\ feed = <<>>
  /\ thresholds = DefaultThresholds
  /\ observations = AgentObservations
  /\ body = <<>>
  /\ inProgress = 0
  /\ ticks = 0
  /\ skipped = 0
  /\ TrackerEmpty
  /\ NewYouTubeAgent
  /\ threads = [t \in Threads |-> IF t = 0 THEN "ready" ELSE "done"]
  /\ Idle

\* What no step of the refresher changes.
RefresherFrame ==
  UNCHANGED <<monitor, config, cron, agentRun, outbox, clock, analyzedIDs, file,
              curatorPc, newVideos, markedAt>>

\* The main goroutine calls startTokenRefresher or StopTokenRefresher.
Call ==
  /\ RefresherFrame
  /\ threads[0] = "ready"
  /\ Len(history) < MaxCalls
  /\ \E f \in {"startTokenRefresher", "StopTokenRefresher"} :
       threads' = [threads EXCEPT ![0] = f]
  /\ UNCHANGED <<tokenRefreshTicker, tokenRefreshStop, tickers, channels, stopped,
                 closed, goroutines, history>>

\* A step of a caller of the refresher.
StartCheckStep == RefresherFrame /\ \E t \in Threads : StartCheck(t)
NewTickerStep == RefresherFrame /\ \E t \in Threads : NewTicker(t)
MakeStopStep == RefresherFrame /\ \E t \in Threads : MakeStop(t)
GoStep == RefresherFrame /\ \E t \in Threads : Go(t)
StopCheckStep == RefresherFrame /\ \E t \in Threads : StopCheck(t)
TickerStopStep == RefresherFrame /\ \E t \in Threads : TickerStop(t)
SendStep == RefresherFrame /\ \E t \in Threads : Send(t)
CloseStep == RefresherFrame /\ \E t \in Threads : Close(t)
ClearTickerStep == RefresherFrame /\ \E t \in Threads : ClearTicker(t)
ClearStopStep == RefresherFrame /\ \E t \in Threads : ClearStop(t)

\* A step of a refresher goroutine.
EnterSelectStep == RefresherFrame /\ \E g \in 1..Len(goroutines) : EnterSelect(g)
SelectStep == RefresherFrame /\ \E g \in 1..Len(goroutines) : Select(g)
RefreshTokenStep == RefresherFrame /\ \E g \in 1..Len(goroutines) : RefreshToken(g)

NextLifecycle ==
  \/ Call
  \/ StartCheckStep
  \/ NewTickerStep
  \/ MakeStopStep
  \/ GoStep
  \/ StopCheckStep
  \/ TickerStopStep
  \/ SendStep
  \/ CloseStep
  \/ ClearTickerStep
  \/ ClearStopStep
  \/ EnterSelectStep
  \/ SelectStep
  \/ RefreshTokenStep

SpecLifecycle == InitLifecycle /\ [][NextLifecycle]_vars

\* ------------------------------------------------------------------------
\* The token refresher, started concurrently: MaxStarters goroutines call
\* startTokenRefresher at the same time; when all have returned the main
\* goroutine calls StopTokenRefresher once.
\* ------------------------------------------------------------------------
InitConcurrent ==
  /\ client = "geojson"
  /\ home = Home1
  /\ feed = <<>>
  /\ thresholds = DefaultThresholds
  /\ observations = AgentObservations
  /\ body = <<>>
  /\ inProgress = 0
  /\ ticks = 0
  /\ skipped = 0
  /\ TrackerEmpty
  /\ NewYouTubeAgent
  /\ threads = [t \in Threads |-> IF t = 0 THEN "wait" ELSE "startTokenRefresher"]
  /\ Idle

\* Every starter has returned: the main goroutine calls StopTokenRefresher.
StopAfterStarts ==
  /\ RefresherFrame
  /\ threads[0] = "wait"
  /\ \A t \in Threads \ {0} : threads[t] = "done"
  /\ threads' = [threads EXCEPT ![0] = "StopTokenRefresher"]
  /\ UNCHANGED <<tokenRefreshTicker, tokenRefreshStop, tickers, channels, stopped,
                 closed, goroutines, history>>

NextConcurrent ==
  \/ StopAfterStarts
  \/ StartCheckStep
  \/ NewTickerStep
  \/ MakeStopStep
  \/ GoStep
  \/ StopCheckStep
  \/ TickerStopStep
  \/ SendStep
  \/ CloseStep
  \/ ClearTickerStep
  \/ ClearStopStep
  \/ EnterSelectStep
  \/ SelectStep
  \/ RefreshTokenStep

SpecConcurrent == InitConcurrent /\ [][NextConcurrent]_vars

\* ------------------------------------------------------------------------
\* Properties of a run of the agent (specification Spec)
\* ------------------------------------------------------------------------

\* C1: once RunOnce has decided, the overall flyable flag (the local
\* isFlyable, metrics.IsFlyable and the report's IsFlyable) equals the
\* weather verdict's IsFlyable, whatever the restriction check gave; a
\* report is built exactly when the weather verdict is flyable.
C1_FlyableIsWeatherVerdict ==
  isFlyable # <<>> =>
    /\ isFlyable[1] = analysis[1].IsFlyable
    /\ metrics.IsFlyable = analysis[1].IsFlyable
    /\ (report # <<>>) = analysis[1].IsFlyable
    /\ (report # <<>> => report[1].IsFlyable = analysis[1].IsFlyable)

\* C1 witness: a decision of flyable taken with active restrictions listed.
C1_Witness ==
  /\ isFlyable = <<TRUE>>
  /\ tfrCheck[1].HasActiveTFRs
  /\ Len(tfrCheck[1].ActiveTFRs) > 0

\* C2: when the restriction fetch failed, the check RunOnce carries on and
\* puts in the report has HasActiveTFRs true and a summary that says
\* "manually" and not "clear to fly"; with flyable weather the run is
\* flyable and the report is built.
C2_FailedFetchNeverClear ==
  ("tfr" \in faults /\ tfrCheck # <<>>) =>
    /\ tfrCheck[1].HasActiveTFRs
    /\ ContainsText(tfrCheck[1].Summary, "manually")
    /\ ~ContainsText(tfrCheck[1].Summary, "miles - clear to fly")
    /\ (report # <<>> => report[1].TFRCheck = tfrCheck[1])
    /\ (analysis[1].IsFlyable =>
          /\ isFlyable = <<TRUE>>
          /\ report # <<>>
          /\ report[1].IsFlyable)

\* C2 witness: a report built after the restriction fetch failed.
C2_Witness == "tfr" \in faults /\ report # <<>>

\* C3: when the weather fetch failed the run is over with an error and one
\* critical failure reported; nothing was decided, no weather data or
\* analysis exists, no report was built, no other collaborator was called
\* (so no e-mail was sent) and OnSuccess was not invoked.
C3_WeatherFailureAborts ==
  "weather" \in faults =>
    /\ pc = "done"
    /\ ret = "error"
    /\ events = <<"OnCriticalFailure">>
    /\ isFlyable = <<>>
    /\ weatherData = <<>>
    /\ analysis = <<>>
    /\ tfrCheck = <<>>
    /\ report = <<>>
    /\ calls = <<"GetCurrentWeather">>
    /\ ~metrics.IsFlyable
    /\ ~metrics.EmailSent

\* C3 witness: the weather fetch fails in a run that follows one that sent
\* its e-mail.
C3_Witness == "weather" \in faults /\ outbox = 1

\* C4: a failed restriction fetch does not end the run: it is reported as a
\* partial failure, the decision is the weather verdict, an error is
\* returned only if the e-mail template or delivery failed, and a run with
\* no other failure returns nil after OnPartialFailure and OnSuccess.
C4_TFRFailureNotFatal ==
  "tfr" \in faults =>
    /\ pc \in {"compose", "generateEmail", "sendEmail", "done"}
    /\ (pc # "compose" =>
          /\ Len(events) >= 1
          /\ events[1] = "OnPartialFailure"
          /\ isFlyable = <<analysis[1].IsFlyable>>
          /\ tfrCheck # <<>>)
    /\ (ret = "error" => faults \cap {"template", "smtp"} # {})
    /\ ((pc = "done" /\ faults = {"tfr"}) =>
          /\ ret = "nil"
          /\ events = <<"OnPartialFailure", "OnSuccess">>)

\* C4 witness: a run whose restriction fetch failed ends with its e-mail
\* sent.
C4_Witness == pc = "done" /\ faults = {"tfr"} /\ metrics.EmailSent

Fetched == allTFRs # <<>> /\ tfrRet # <<>> /\ ~tfrRet[1].err

\* The active list CheckTFRs returned.
Active == tfrRet[1].check.ActiveTFRs

Listed(t) == \E j \in 1..Len(Active) : Active[j] = t

Unresolved(t) == t.Latitude = 0 /\ t.Longitude = 0

\* C6 (as claimed): a fetched restriction with an end time and a center in
\* range is listed as active iff start <= now < end.
C6_HalfOpenInterval ==
  Fetched =>
    \A i \in 1..Len(allTFRs[1]) :
      LET t == allTFRs[1][i]
      IN  (~IsZero(t.EndTime)
             /\ isWithinSearchArea(home.Latitude, home.Longitude, t)) =>
            (Listed(t) <=> (t.StartTime <= now /\ now < t.EndTime))

\* C7: no restriction whose start is after now is in the active list.
C7_FutureStartNeverActive ==
  Fetched => \A j \in 1..Len(Active) : ~(Active[j].StartTime > now)

\* C7 witness: the feed holds a restriction that starts after now, has not
\* ended and is in range.
C7_Witness ==
  /\ Fetched
  /\ \E i \in 1..Len(allTFRs[1]) :
       /\ allTFRs[1][i].StartTime > now
       /\ allTFRs[1][i].EndTime > now
       /\ isWithinSearchArea(home.Latitude, home.Longitude, allTFRs[1][i])

\* C8: a restriction with latitude and longitude both zero is never within
\* the search area and never in the active list.
C8_UnresolvedCenterNeverRelevant ==
  Fetched =>
    /\ \A j \in 1..Len(Active) : ~Unresolved(Active[j])
    /\ \A i \in 1..Len(allTFRs[1]) :
         Unresolved(allTFRs[1][i]) =>
           ~isWithinSearchArea(home.Latitude, home.Longitude, allTFRs[1][i])

\* C8 witness: an unresolved restriction in force, fetched for a home less
\* than the search radius away from latitude 0, longitude 0.
C8_Witness ==
  /\ Fetched
  /\ calculateDistance(home.Latitude, home.Longitude, 0, 0) <= SearchRadiusMiles * 100
  /\ \E i \in 1..Len(allTFRs[1]) :
       /\ Unresolved(allTFRs[1][i])
       /\ allTFRs[1][i].StartTime <= now
       /\ now < allTFRs[1][i].EndTime

C10_StableFilter ==
  Fetched =>
    Active = SelectSeq(allTFRs[1],
                       LAMBDA t : /\ isActive(client, t, now)
                                  /\ isWithinSearchArea(home.Latitude, home.Longitude, t))

\* C10 witness: two different restrictions listed, one fetched restriction
\* left out.
C10_Witness ==
  /\ Fetched
  /\ Len(Active) >= 2
  /\ Active[1] # Active[2]
  /\ Len(allTFRs[1]) > Len(Active)

\* ------------------------------------------------------------------------
\* Properties of the weather evaluator (specification SpecWeather)
\* ------------------------------------------------------------------------

\* The five threshold checks in the order of AnalyzeWeatherConditions, each
\* with whether observation d violates it under thresholds w.
ThresholdChecks(w, d) ==
  <<[violated |-> d.WindSpeed > w.MaxWindSpeedKmh * 10, reason |-> "Wind speed too high"],
    [violated |-> d.Visibility < w.MinVisibilityKm * 10, reason |-> "Visibility too low"],
    [violated |-> d.Precipitation > w.MaxPrecipitationMm, reason |-> "Precipitation present"],
    [violated |-> d.Temperature < w.MinTempC, reason |-> "Temperature too low"],
    [violated |-> d.Temperature > w.MaxTempC, reason |-> "Temperature too high"]>>

Violations(w, d) == SelectSeq(ThresholdChecks(w, d), LAMBDA c : c.violated)

\* C11: the reasons of the verdict are exactly the violated thresholds, one
\* entry each, in the order wind speed, visibility, precipitation, minimum
\* temperature, maximum temperature; no check is skipped after a failure.
C11_AllChecksInOrder ==
  analysis # <<>> =>
    LET expected == Violations(thresholds, weatherData[1])
        reasons == analysis[1].Reasons
    IN  /\ Len(reasons) = Len(expected)
        /\ \A i \in 1..Len(reasons) : reasons[i] = expected[i].reason

\* C11 witness: wind 36, visibility 1, precipitation 2 and temperature 0
\* under the default thresholds: four reasons.
C11_Witness ==
  /\ analysis # <<>>
  /\ thresholds = DefaultThresholds
  /\ weatherData[1] = WeatherData(0, 360, 10, 20, <<>>)
  /\ Len(analysis[1].Reasons) = 4
  /\ ~analysis[1].IsFlyable

\* C12: the verdict is flyable iff its reasons list is empty, and iff no
\* threshold is violated.
C12_FlyableIffNoReasons ==
  analysis # <<>> =>
    /\ analysis[1].IsFlyable <=> (analysis[1].Reasons = <<>>)
    /\ analysis[1].IsFlyable <=> (Violations(thresholds, weatherData[1]) = <<>>)

\* C12 witness: wind 14.4, visibility 10, no precipitation and temperature
\* 20 under the default thresholds: flyable, no reasons.
C12_Witness ==
  /\ analysis # <<>>
  /\ thresholds = DefaultThresholds
  /\ weatherData[1] = WeatherData(200, 144, 100, 0, <<>>)
  /\ analysis[1].IsFlyable
  /\ analysis[1].Reasons = <<>>

\* The tiers of the wind forecast, weakest first.
WindTiers ==
  <<"Very light winds, excellent conditions", "Light winds, good conditions",
    "Moderate winds, manageable", "Strong winds, challenging conditions">>

Tier(label) == CHOOSE i \in 1..Len(WindTiers) : WindTiers[i] = label

\* C13: the wind forecast label is one of the four tiers, is fixed by the
\* current wind speed alone (the tier counts the breakpoints 8, 16 and 24
\* km/h the speed has reached, whatever the thresholds and the other
\* fields), and no higher wind speed gets a weaker tier.
C13_WindLabelMonotone ==
  analysis # <<>> =>
    LET label == analysis[1].WindForecast
        speed == weatherData[1].WindSpeed
    IN  /\ \E i \in 1..Len(WindTiers) : WindTiers[i] = label
        /\ Tier(label) = 1 + Cardinality({b \in {80, 160, 240} : b <= speed})
        /\ \A other \in observations :
             speed <= other.WindSpeed =>
               Tier(label) <= Tier(windForecast(other))

\* C13 witness: a moderate wind label for a wind speed that is over the
\* wind threshold in force.
C13_Witness ==
  /\ analysis # <<>>
  /\ analysis[1].WindForecast = "Moderate winds, manageable"
  /\ weatherData[1].WindSpeed > thresholds.MaxWindSpeedKmh * 10

\* C14 (as claimed): with hourly data the average wind speed and the
\* average gust are the means of their series; without hourly data the two
\* fields hold no value a computed average can take.
C14_AveragesUnsetWithoutSeries ==
  analysis # <<>> =>
    LET d == weatherData[1]
        a == analysis[1]
    IN  IF d.HourlyData = <<>>
        THEN /\ a.AvgWindSpeedKmh \notin Nat
             /\ a.AvgWindGustsKmh \notin Nat
        ELSE /\ Len(d.HourlyData[1].WindSpeeds) > 0 =>
                  a.AvgWindSpeedKmh * Len(d.HourlyData[1].WindSpeeds)
                    = Sum(d.HourlyData[1].WindSpeeds)
             /\ Len(d.HourlyData[1].WindGusts) > 0 =>
                  a.AvgWindGustsKmh * Len(d.HourlyData[1].WindGusts)
                    = Sum(d.HourlyData[1].WindGusts)

\* ------------------------------------------------------------------------
\* Properties of the GeoJSON feed (specification SpecFeed)
\* ------------------------------------------------------------------------

\* The features parseGeoJSONTFRs keeps: those with a NOTAM key and a legal
\* class.
Kept == SelectSeq(body, LAMBDA f : f.NotamKey # "" /\ f.LegalClass # "")

\* The body has been parsed.
Parsed == allTFRs # <<>> /\ Len(allTFRs[1]) = Len(Kept)

\* The date text is a date of the calendar with a weekday name.
IsCalendarDate(piece) ==
  /\ piece.weekday \in Weekdays
  /\ \E m \in 1..Len(Months) :
       Months[m] = piece.month /\ piece.day \in 1..DaysIn(m, piece.year)

\* C15: when the first date text of a title is followed by "through" and a
\* second date text, and both are dates of the calendar, the TFR starts on
\* the first and ends on the second (13 January 2025 through 19 December
\* 2025: days 13 and 353 of 2025); when the first date text stands alone
\* and is a date of the calendar, the TFR starts on it and ends 24 hours
\* later.
C15_DateRangeAndSingleDay ==
  allTFRs # <<>> =>
    /\ Len(allTFRs[1]) = Len(Kept)
    /\ \A k \in 1..Len(Kept) :
         LET title == Kept[k].Title
             tfr == allTFRs[1][k]
             i == firstDatePattern(title)
         IN  /\ (i # 0 /\ isDateRange(title, i)
                    /\ IsCalendarDate(title[i]) /\ IsCalendarDate(title[i + 2])) =>
                   /\ tfr.StartTime = DayNumber(title[i].year, MonthNumber(title[i].month),
                                                title[i].day)
                   /\ tfr.EndTime = DayNumber(title[i + 2].year,
                                              MonthNumber(title[i + 2].month),
                                              title[i + 2].day)
             /\ (i # 0 /\ ~isDateRange(title, i) /\ IsCalendarDate(title[i])) =>
                   /\ tfr.StartTime = DayNumber(title[i].year, MonthNumber(title[i].month),
                                                title[i].day)
                   /\ tfr.EndTime = tfr.StartTime + 1
             /\ (title = <<Word("VIEQUES, PR,"), Jan13, Through, Dec19, Word("UTC")>>) =>
                   (tfr.StartTime = 13 /\ tfr.EndTime = 353)
             /\ (title = <<Word("VIEQUES, PR,"), Jan13, Word("UTC")>>) =>
                   (tfr.StartTime = 13 /\ tfr.EndTime = 14)
             /\ (title = <<DateText("Tuesday", "February", 29, 2028)>>) =>
                   (tfr.StartTime = 1155 /\ tfr.EndTime = 1156)

\* C15 witness: a body with the range title and the single-date title, read
\* in between.
C15_Witness ==
  /\ Parsed
  /\ Len(Kept) = 2
  /\ Kept[1].Title = <<Word("VIEQUES, PR,"), Jan13, Through, Dec19, Word("UTC")>>
  /\ Kept[2].Title = <<Word("VIEQUES, PR,"), Jan13, Word("UTC")>>
  /\ allTFRs[1][1].EndTime = 353
  /\ allTFRs[1][2].EndTime = 14

\* C16: every feature with a NOTAM key and a legal class yields one TFR, in
\* order, whatever its title and the titles around it; one whose title has
\* no date pattern or dates that do not parse starts a day before now and
\* ends 365 days after now, so it starts at most 24 hours before now, ends
\* at least 300 days after now and is active at now.
C16_FallbackWindow ==
  allTFRs # <<>> =>
    /\ Len(allTFRs[1]) = Len(Kept)
    /\ \A k \in 1..Len(Kept) :
         LET title == Kept[k].Title
             tfr == allTFRs[1][k]
             i == firstDatePattern(title)
             unparsed ==
               \/ i = 0
               \/ ~IsCalendarDate(title[i])
               \/ (isDateRange(title, i) /\ ~IsCalendarDate(title[i + 2]))
         IN  /\ tfr.ID = Kept[k].NotamKey
             /\ unparsed =>
                   /\ tfr.StartTime = now - 1
                   /\ tfr.EndTime = now + 365
                   /\ now - tfr.StartTime <= 1
                   /\ tfr.EndTime - now >= 300
                   /\ IsCurrentlyActive(tfr, now)

\* C16 witness: a feature whose date does not parse, in front of a feature
\* with a date range that did.
C16_Witness ==
  /\ Parsed
  /\ Len(Kept) = 2
  /\ Kept[1].Title = <<DateText("Friday", "February", 30, 2025)>>
  /\ allTFRs[1][1].StartTime = now - 1
  /\ allTFRs[1][2].StartTime = 13
  /\ allTFRs[1][2].EndTime = 353

\* ------------------------------------------------------------------------
\* Properties of the scheduler (specification SpecScheduler)
\* ------------------------------------------------------------------------

\* C17: at most one call of RunOnce is in progress; every tick of the
\* schedule has either started a run at once or been skipped for good (the
\* runs started and the ticks skipped add up to the ticks, so no skipped
\* tick runs later), and a run is under way exactly while a call is in
\* progress.
C17_NoOverlappingRuns ==
  /\ inProgress \in {0, 1}
  /\ run + skipped = ticks
  /\ (inProgress = 0) <=> (pc = "idle")

\* C17 witness: a tick was skipped during a run and that run has returned
\* with no other run started.
C17_Witness ==
  /\ skipped >= 1
  /\ run = 1
  /\ pc = "idle"
  /\ inProgress = 0

\* ------------------------------------------------------------------------
\* E-mail and verdict (specification Spec)
\* ------------------------------------------------------------------------

\* C18: an e-mail is sent, and a report built, only for a flyable weather
\* verdict, so EmailSent implies IsFlyable in the metrics; a run whose
\* verdict is not flyable sends nothing and ends with nil and OnSuccess.
C18_EmailOnlyWhenFlyable ==
  /\ metrics.EmailSent => (metrics.IsFlyable /\ analysis[1].IsFlyable)
  /\ (calls # <<>> /\ calls[Len(calls)] \in {"generateEmailBody", "SendHTML"}) =>
       analysis[1].IsFlyable
  /\ (isFlyable = <<FALSE>>) =>
       /\ pc = "done"
       /\ ret = "nil"
       /\ events[Len(events)] = "OnSuccess"
       /\ ~metrics.EmailSent
       /\ report = <<>>

\* C18 witness: a run that was not flyable ended after a run that sent its
\* e-mail.
C18_Witness == isFlyable = <<FALSE>> /\ outbox = 1 /\ pc = "done"

\* ------------------------------------------------------------------------
\* Properties of the video tracker (specification SpecCurator)
\* ------------------------------------------------------------------------

C20_CheckMatchesList ==
  tfrRet # <<>> =>
    LET check == tfrRet[1].check
        N == Len(check.ActiveTFRs)
    IN  /\ check.HasActiveTFRs <=> (N > 0)
        /\ check.ActiveTFRs =
             (IF tfrRet[1].err THEN <<>>
              ELSE filterTFRs(client, allTFRs[1], home.Latitude, home.Longitude,
                              now, <<>>))
        /\ check.CheckRadius = SearchRadiusMiles
        /\ check.CheckRadius = 25
        /\ IF N = 0
           THEN check.Summary =
                  <<"No restrictions found within", "25", "miles - clear to fly">>
           ELSE check.Summary =
                  <<ToString(N), "restriction(s) found within", "25",
                    "miles - check locations before flying">>

\* C20 witness: a check that lists two restrictions.
C20_Witness ==
  /\ tfrRet # <<>>
  /\ Len(tfrRet[1].check.ActiveTFRs) = 2
  /\ tfrRet[1].check.HasActiveTFRs
  /\ tfrRet[1].check.Summary[1] = "2"

\* ------------------------------------------------------------------------
\* Events of a run (specification Spec)
\* ------------------------------------------------------------------------

TerminalEvents == {"OnSuccess", "OnCriticalFailure"}

EventCount(e) == Cardinality({i \in 1..Len(events) : events[i] = e})

C29_ZeroEndIsOpenEnded ==
  Fetched =>
    \A i \in 1..Len(allTFRs[1]) :
      LET t == allTFRs[1][i]
      IN  (IsZero(t.EndTime) /\ ~After(t.StartTime, now)
             /\ isWithinSearchArea(home.Latitude, home.Longitude, t)) =>
            Listed(t)

\* ------------------------------------------------------------------------
\* Thresholds met exactly (specification SpecWeather)
\* ------------------------------------------------------------------------

\* C30: a magnitude equal to its threshold does not violate it and adds no
\* reason; an observation with every magnitude on or inside its threshold
\* is flyable.
C30_StrictComparisons ==
  analysis # <<>> =>
    LET d == weatherData[1]
        w == thresholds
        reasons == analysis[1].Reasons
        Has(r) == \E i \in 1..Len(reasons) : reasons[i] = r
    IN  /\ d.WindSpeed = w.MaxWindSpeedKmh * 10 => ~Has("Wind speed too high")
        /\ d.Visibility = w.MinVisibilityKm * 10 => ~Has("Visibility too low")
        /\ d.Precipitation = w.MaxPrecipitationMm => ~Has("Precipitation present")
        /\ d.Temperature = w.MinTempC => ~Has("Temperature too low")
        /\ d.Temperature = w.MaxTempC => ~Has("Temperature too high")
        /\ (/\ d.WindSpeed <= w.MaxWindSpeedKmh * 10
            /\ d.Visibility >= w.MinVisibilityKm * 10
            /\ d.Precipitation <= w.MaxPrecipitationMm
            /\ d.Temperature >= w.MinTempC
            /\ d.Temperature <= w.MaxTempC) => analysis[1].IsFlyable

\* C30 witness: wind 25, visibility 5, no precipitation and temperature 4.4
\* under the default thresholds: flyable.
C30_Witness ==
  /\ analysis # <<>>
  /\ thresholds = DefaultThresholds
  /\ weatherData[1] = WeatherData(44, 250, 50, 0, <<>>)
  /\ analysis[1].IsFlyable
  /\ analysis[1].Reasons = <<>>

\* ------------------------------------------------------------------------
\* Health of the service (specification Spec)
\* ------------------------------------------------------------------------

\* C27: the monitor is healthy before any run; while a run is under way its
\* record is still the one of an earlier run (or none), whatever partial
\* failure the run reports, and recording a partial failure leaves the
\* monitor as it is; once the run is over the record is the one of this
\* run, and the monitor is healthy iff the run returned nil (unhealthy iff
\* it returned an error).
C27_HealthIsLastOutcome ==
  /\ run = 0 => IsHealthy(monitor)
  /\ IsZero(monitor.lastRunTime) => IsHealthy(monitor)
  /\ RecordPartialFailure(monitor, run) = monitor
  /\ IsHealthy(RecordPartialFailure(monitor, run)) = IsHealthy(monitor)
  /\ pc \notin {"idle", "done"} => monitor.lastRunTime < run
  /\ pc = "done" =>
       /\ monitor.lastRunTime = run
       /\ ret = "nil" => IsHealthy(monitor)
       /\ ret = "error" => ~IsHealthy(monitor)

\* C27 witness: the second run failed critically after a first run that
\* succeeded: the monitor is unhealthy.
C27_Witness ==
  /\ run = 2
  /\ pc = "done"
  /\ ret = "error"
  /\ outbox = 1
  /\ ~IsHealthy(monitor)

\* ------------------------------------------------------------------------
\* Geometry of the restrictions
\* ------------------------------------------------------------------------

\* The first ring of the geometry of a feature, <<>> if it has none.
Ring(feature) ==
  IF feature.Geometry.Type = "Polygon" /\ Len(feature.Geometry.Coordinates) > 0
  THEN feature.Geometry.Coordinates[1]
  ELSE <<>>

\* The vertices of a ring that have two numbers, as latitude and longitude.
Vertices(ring) ==
  LET valid == SelectSeq(ring, LAMBDA coord : Len(coord) >= 2)
  IN  [k \in 1..Len(valid) |-> webMercatorToWGS84(valid[k][2], valid[k][1])]

\* C21 (specification SpecFeed): the TFR of a feature with an empty ring has
\* center (0, 0) and radius 0; the center of a TFR whose ring has vertices
\* is the arithmetic mean of the vertices, every vertex counting as often
\* as it occurs, and its radius is the largest distance from the center to
\* a vertex: it is not negative, every vertex is within the radius of the
\* center and one vertex is at the radius.
C21_PolygonCenter ==
  Parsed =>
    \A k \in 1..Len(Kept) :
      LET tfr == allTFRs[1][k]
          v == Vertices(Ring(Kept[k]))
          n == Len(v)
          Distance(i) == calculateDistance(tfr.Latitude, tfr.Longitude,
                                           v[i].Latitude, v[i].Longitude)
      IN  /\ Ring(Kept[k]) = <<>> =>
               tfr.Latitude = 0 /\ tfr.Longitude = 0 /\ tfr.Radius = 0
          /\ n > 0 =>
               /\ n * tfr.Latitude = Sum([i \in 1..n |-> v[i].Latitude])
               /\ n * tfr.Longitude = Sum([i \in 1..n |-> v[i].Longitude])
               /\ tfr.Radius >= 0
               /\ \A i \in 1..n : Distance(i) <= tfr.Radius
               /\ \E i \in 1..n : Distance(i) = tfr.Radius

\* C21 witness: the ring with Near three times and Home1 once: its center
\* is a quarter of the way from Near to Home1, 2.18 miles from Near, and
\* its radius is the 6.53 miles to Home1.
C21_Witness ==
  /\ Parsed
  /\ Len(Kept) >= 1
  /\ Len(Vertices(Ring(Kept[1]))) = 4
  /\ Point(allTFRs[1][1].Latitude, allTFRs[1][1].Longitude) = Quarter
  /\ allTFRs[1][1].Radius = 653

\* C22 (specification SpecFilter): the distance CheckTFRs measured from home
\* to the center of a fetched restriction is the distance from the center
\* to home, and the distance of home and of the center to themselves is 0.
C22_DistanceSymmetric ==
  Fetched =>
    \A i \in 1..Len(allTFRs[1]) :
      LET t == allTFRs[1][i]
      IN  /\ calculateDistance(home.Latitude, home.Longitude,
                               t.Latitude, t.Longitude)
               = calculateDistance(t.Latitude, t.Longitude,
                                   home.Latitude, home.Longitude)
          /\ calculateDistance(t.Latitude, t.Longitude,
                               t.Latitude, t.Longitude) = 0
          /\ calculateDistance(home.Latitude, home.Longitude,
                               home.Latitude, home.Longitude) = 0

\* C22 witness: a restriction centered at Near, 8.70 miles from Home1, is
\* listed.
C22_Witness ==
  /\ Fetched
  /\ home = Home1
  /\ \E i \in 1..Len(Active) :
       /\ Point(Active[i].Latitude, Active[i].Longitude) = Near
       /\ calculateDistance(Home1.Latitude, Home1.Longitude,
                            Near.Latitude, Near.Longitude) = 870

\* C24 (as claimed, specification SpecFeed): a restriction parsed from a
\* polygon and active now is listed iff the distance from home to its
\* center is at most the search radius plus its bounding radius, both in
\* miles.
C24_RadiusInOneUnit ==
  (Parsed /\ Fetched) =>
    \A k \in 1..Len(allTFRs[1]) :
      LET tfr == allTFRs[1][k]
      IN  (IsCurrentlyActive(tfr, now) /\ ~Unresolved(tfr)) =>
            (Listed(tfr) <=>
               calculateDistance(home.Latitude, home.Longitude,
                                 tfr.Latitude, tfr.Longitude)
                 <= SearchRadiusMiles * 100 + tfr.Radius)

\* ------------------------------------------------------------------------
\* Repeated calls (specification Spec)
\* ------------------------------------------------------------------------

LiveGoroutines == {g \in 1..Len(goroutines) : Live(goroutines[g])}

\* The tickers that were created and not stopped.
RunningTickers == (1..tickers) \ stopped

\* C25 (specification SpecLifecycle): with all calls made from one
\* goroutine, a start that finds the refresher running keeps its ticker
\* and starts nothing; a start that finds it stopped creates a new running
\* ticker and one goroutine; a stop, also a repeated one or one without a
\* start, returns with ticker and stop channel nil and no goroutine left.
\* Between calls there is one goroutine and one running ticker when the
\* refresher is started and none when it is not, and no goroutine panics.
C25_RefresherLifecycle ==
  /\ \A g \in 1..Len(goroutines) : goroutines[g].pc # "panic"
  /\ Cardinality(LiveGoroutines) <= 1
  /\ Cardinality(RunningTickers) <= 1
  /\ threads[0] = "ready" =>
       /\ (tokenRefreshTicker = 0) <=> (tokenRefreshStop = 0)
       /\ Cardinality(LiveGoroutines) = IF tokenRefreshTicker = 0 THEN 0 ELSE 1
       /\ RunningTickers = IF tokenRefreshTicker = 0 THEN {} ELSE {tokenRefreshTicker}
       /\ tokenRefreshStop \notin closed
       /\ history # <<>> => history[Len(history)].ticker = tokenRefreshTicker
  /\ \A i \in 1..Len(history) :
       LET before == IF i = 1 THEN 0 ELSE history[i - 1].ticker
           after == history[i].ticker
       IN  /\ (history[i].op = "start" /\ before # 0) => after = before
           /\ (history[i].op = "start" /\ before = 0) =>
                 /\ after # 0
                 /\ \A k \in 1..(i - 1) : history[k].ticker < after
           /\ history[i].op = "stop" => after = 0

\* C25 witness: start, start again, stop, start: the second start kept
\* ticker 1, and the goroutine of the last start is in a refresh on
\* ticker 2 while the first goroutine has returned.
C25_Witness ==
  /\ Len(history) = 4
  /\ [i \in 1..4 |-> history[i].op] = <<"start", "start", "stop", "start">>
  /\ [i \in 1..4 |-> history[i].ticker] = <<1, 1, 0, 2>>
  /\ Len(goroutines) = 2
  /\ goroutines[1].pc = "returned"
  /\ goroutines[2] = Goroutine("refresh", 2, 2)

\* C26 (as claimed, specification SpecConcurrent): once the concurrent
\* calls of startTokenRefresher have returned there is exactly one ticker
\* and one goroutine; once the StopTokenRefresher that follows has returned
\* the ticker is nil and no goroutine is left; no goroutine panics.
C26_OneRefresherUnderConcurrency ==
  /\ \A g \in 1..Len(goroutines) : goroutines[g].pc # "panic"
  /\ (\A t \in Threads \ {0} : threads[t] = "done") =>
       /\ tickers = 1
       /\ Len(goroutines) = 1
  /\ threads[0] = "ready" =>
       /\ tokenRefreshTicker = 0
       /\ LiveGoroutines = {}

====
